---- MODULE Spec2Model ----
(***************************************************************************)
(* A model of the WebSocket opening handshake of abursavich/websocket:     *)
(* the RFC 2616 header grammar (internal/httpheaders), the RFC 6455 header *)
(* checks (internal/wsheaders), the server's accept handshake and the      *)
(* client's verification of the server's response.                         *)
(*                                                                         *)
(* A Go string is a sequence of one-byte strings ("characters"); a byte    *)
(* that has no printable form is written as a longer atom ("0x00",         *)
(* "0x7f", "0xe9").  An http.Header entry is a record [present, vals]:     *)
(* present tells whether the key is in the map, vals are its values.       *)
(***************************************************************************)
EXTENDS Integers, Sequences, FiniteSets, TLC

(***************************************************************************)
(* Characters                                                              *)
(***************************************************************************)
UpperChars == <<"A","B","C","D","E","F","G","H","I","J","K","L","M","N","O","P","Q","R","S","T","U","V","W","X","Y","Z">>

LowerChars == <<"a","b","c","d","e","f","g","h","i","j","k","l","m","n","o","p","q","r","s","t","u","v","w","x","y","z">>

DigitChars == <<"0","1","2","3","4","5","6","7","8","9">>

Range(s) == {s[i] : i \in 1..Len(s)}

UpperSet == Range(UpperChars)

LowerSet == Range(LowerChars)

DigitSet == Range(DigitChars)

\* each upper-case letter in lower case
Lowered ==
    [c \in UpperSet |->
        LowerChars[CHOOSE i \in 1..Len(UpperChars) : UpperChars[i] = c]]

\* strings.ToLower, one byte
ToLowerChar(c) == IF c \in UpperSet THEN Lowered[c] ELSE c

\* strings.ToLower
ToLower(s) == [i \in 1..Len(s) |-> ToLowerChar(s[i])]

\* strings.EqualFold on ASCII text
EqualFold(a, b) ==
    /\ Len(a) = Len(b)
    /\ \A i \in 1..Len(a) : ToLowerChar(a[i]) = ToLowerChar(b[i])

\* httpheaders.isSpace: LWS = [CRLF] 1*( SP | HT )
isSpace(b) == b \in {" ", "\t", "\r", "\n"}

\* httpheaders.isChar: octets 0 - 127
isChar(b) == b \notin {"0xe9", "0xff"}

\* httpheaders.isControl: octets 0 - 31 and DEL (127)
isControl(b) == b \in {"\t", "\r", "\n", "0x00", "0x7f"}

\* httpheaders.isSeparator
isSeparator(b) ==
    b \in {"(", ")", "<", ">", "@", ",", ";", ":", "\\", "\"",
           "/", "[", "]", "?", "=", "{", "}", " ", "\t"}

\* httpheaders.isToken: any CHAR except CTLs or separators
isToken(b) == isChar(b) /\ ~isControl(b) /\ ~isSeparator(b)

\* unicode.IsSpace on the bytes of the model
IsUnicodeSpace(b) == b \in {" ", "\t", "\r", "\n"}

(***************************************************************************)
(* internal/httpheaders: the RFC 2616 grammar                              *)
(***************************************************************************)
RECURSIVE TrimLeft(_, _)
\* strings.TrimLeftFunc(s, f) with f the membership in cutset
TrimLeft(s, cutset) ==
    IF s # <<>> /\ Head(s) \in cutset THEN TrimLeft(Tail(s), cutset) ELSE s

RECURSIVE TrimRight(_, _)
TrimRight(s, cutset) ==
    IF s # <<>> /\ s[Len(s)] \in cutset
    THEN TrimRight(SubSeq(s, 1, Len(s) - 1), cutset)
    ELSE s

\* strings.TrimSpace
TrimSpace(s) ==
    TrimRight(TrimLeft(s, {" ", "\t", "\r", "\n"}), {" ", "\t", "\r", "\n"})

trimLeftSpace(s) == TrimLeft(s, {" ", "\t", "\r", "\n"})

trimLeftCommaOrSpace(s) == TrimLeft(s, {",", " ", "\t", "\r", "\n"})

RECURSIVE TokenPrefixLen(_, _)
\* the loop of ReadToken: the number of leading token characters of s
TokenPrefixLen(s, i) ==
    IF i > Len(s) \/ ~isToken(s[i]) THEN i - 1 ELSE TokenPrefixLen(s, i + 1)

\* a variant of ReadToken: the rest keeps its leading white space
ReadTokenUntrimmed(s) ==
    LET n == TokenPrefixLen(s, 1) IN
    IF n = 0
    THEN [err |-> TRUE, token |-> <<>>, rest |-> <<>>]
    ELSE [err |-> FALSE, token |-> SubSeq(s, 1, n), rest |-> SubSeq(s, n + 1, Len(s))]

\* httpheaders.ReadToken
ReadToken(s) ==
    LET n == TokenPrefixLen(s, 1) IN
    IF n = 0
    THEN [err |-> TRUE, token |-> <<>>, rest |-> <<>>]
    ELSE [err |-> FALSE, token |-> SubSeq(s, 1, n),
          rest |-> trimLeftSpace(SubSeq(s, n + 1, Len(s)))]

\* httpheaders.IsToken
IsToken(s) == s # <<>> /\ \A i \in 1..Len(s) : isToken(s[i])

RECURSIVE ParseTokenListLoop(_, _)
\* the for loop of ParseTokenList
ParseTokenListLoop(rest, tokens) ==
    LET t == ReadToken(rest) IN
    IF t.err THEN [err |-> TRUE, tokens |-> <<>>]
    ELSE LET toks == Append(tokens, t.token) IN
         IF t.rest = <<>> THEN [err |-> FALSE, tokens |-> toks]
         ELSE IF Head(t.rest) # "," THEN [err |-> TRUE, tokens |-> <<>>]
         ELSE LET more == trimLeftCommaOrSpace(t.rest) IN
              IF more = <<>> THEN [err |-> FALSE, tokens |-> toks]
              ELSE ParseTokenListLoop(more, toks)

\* a variant of ParseTokenList: a value without any element is an empty list
ParseTokenListOrNone(value) ==
    IF trimLeftCommaOrSpace(value) = <<>> THEN [err |-> FALSE, tokens |-> <<>>]
    ELSE ParseTokenListLoop(trimLeftCommaOrSpace(value), <<>>)

\* httpheaders.ParseTokenList
ParseTokenList(value) == ParseTokenListLoop(trimLeftCommaOrSpace(value), <<>>)

RECURSIVE ParseTokenListsLoop(_, _, _)
ParseTokenListsLoop(values, i, tokens) ==
    IF i > Len(values) THEN [err |-> FALSE, tokens |-> tokens]
    ELSE LET v == ParseTokenList(values[i]) IN
         IF v.err THEN [err |-> TRUE, tokens |-> <<>>]
         ELSE ParseTokenListsLoop(values, i + 1, tokens \o v.tokens)

\* httpheaders.ParseTokenLists
ParseTokenLists(values) == ParseTokenListsLoop(values, 1, <<>>)

\* httpheaders.ContainsToken
ContainsToken(tokens, token) ==
    \E i \in 1..Len(tokens) : EqualFold(tokens[i], token)

\* httpheaders.VerifyIsToken: "ok" or "err"
VerifyIsToken(h, token) ==
    IF ~h.present THEN "err"
    ELSE LET p == ParseTokenLists(h.vals) IN
         IF p.err THEN "err"
         ELSE IF Len(p.tokens) # 1 \/ ~EqualFold(p.tokens[1], token) THEN "err"
         ELSE "ok"

\* VerifyContainsToken as it would be if a value that does not parse failed
\* the whole header, as in ParseTokenLists
VerifyContainsTokenStrict(h, token) ==
    IF ~h.present THEN "err"
    ELSE IF h.vals = <<>> THEN "panic"
    ELSE IF ParseTokenLists(h.vals).err THEN "err"
    ELSE IF ContainsToken(ParseTokenLists(h.vals).tokens, token) THEN "ok"
    ELSE "err"

RECURSIVE VerifyContainsTokenLoop(_, _, _, _)
\* the loop of VerifyContainsToken over values[1:]; firstErr is carried along
VerifyContainsTokenLoop(values, i, firstErr, token) ==
    IF i > Len(values) THEN "err"
    ELSE LET more == ParseTokenList(values[i]) IN
         IF more.err
         THEN VerifyContainsTokenLoop(values, i + 1, TRUE, token)
         ELSE IF ContainsToken(more.tokens, token) THEN "ok"
         ELSE VerifyContainsTokenLoop(values, i + 1, firstErr, token)

\* httpheaders.VerifyContainsToken: "ok", "err", or "panic" (values[0] of an
\* empty list)
VerifyContainsToken(h, token) ==
    IF ~h.present THEN "err"
    ELSE IF h.vals = <<>> THEN "panic"
    ELSE LET first == ParseTokenList(h.vals[1]) IN
         IF ContainsToken(first.tokens, token) THEN "ok"
         ELSE VerifyContainsTokenLoop(h.vals, 2, first.err, token)

(***************************************************************************)
(* Literal strings of the sources and of the requests of the model         *)
(***************************************************************************)
sUpgrade == <<"U","p","g","r","a","d","e">>

sWebSocket == <<"W","e","b","S","o","c","k","e","t">>

sWebsocketLower == <<"w","e","b","s","o","c","k","e","t">>

sKeepAliveUpgrade == <<"k","e","e","p","-","a","l","i","v","e",","," ","U","p","g","r","a","d","e">>

sUpgradeLower == <<"u","p","g","r","a","d","e">>

sNotUpgrade == <<"n","o","t","U","p","g","r","a","d","e">>

sBarBaz == <<"b","a","r",";"," ","b","a","z">>

sClose == <<"c","l","o","s","e">>

s13 == <<"1","3">>

s14 == <<"1","4">>

s256 == <<"2","5","6">>

sAbc == <<"a","b","c">>

\* the key of RFC 6455 section 1.3: base64 of "the sample nonce"
sSampleKey == <<"d","G","h","l","I","H","N","h","b","X","B","s","Z","S","B","u","b","2","5","j","Z","Q","=","=">>

\* the same 16 bytes, with the unused bits of the last sextet set
sSampleKeyBits == <<"d","G","h","l","I","H","N","h","b","X","B","s","Z","S","B","u","b","2","5","j","Z","R","=","=">>

\* base64 of the three bytes "ABC"
sShortKey == <<"Q","U","J","D">>

\* the one byte "A", with the unused bits of the last sextet set
sShortKeyBits == <<"Q","R","=","=">>

sShortKeyCanon == <<"Q","Q","=","=">>

sSecondKey == <<"M","D","E","y","M","z","Q","1","N","j","c","4","O","W","F","i","Y","2","R","l","Z","g","=","=">>

sNotBase64 == <<"A","B","C","D","E","F">>

(***************************************************************************)
(* encoding/base64, StdEncoding                                            *)
(***************************************************************************)
B64Alphabet == UpperChars \o LowerChars \o DigitChars \o <<"+", "/">>

\* the characters of the alphabet
B64Chars == Range(B64Alphabet)

\* the place of each of them in the alphabet
B64Place == [c \in B64Chars |-> CHOOSE i \in 1..Len(B64Alphabet) : B64Alphabet[i] = c]

B64Val(c) == B64Place[c] - 1

IsB64(c) == c \in B64Chars

\* one quantum of four characters: the bytes it decodes to, or an error.
\* A quantum that holds padding must be the last one.
B64Quantum(q, last) ==
    IF ~IsB64(q[1]) \/ ~IsB64(q[2]) THEN [err |-> TRUE, bytes |-> <<>>]
    ELSE LET v1 == B64Val(q[1])
             v2 == B64Val(q[2])
         IN
         IF IsB64(q[3]) /\ IsB64(q[4])
         THEN LET n == ((v1 * 64 + v2) * 64 + B64Val(q[3])) * 64 + B64Val(q[4]) IN
              [err |-> FALSE,
               bytes |-> <<n \div 65536, (n \div 256) % 256, n % 256>>]
         ELSE IF IsB64(q[3]) /\ q[4] = "=" /\ last
         THEN LET n == ((v1 * 64 + v2) * 64 + B64Val(q[3])) * 64 IN
              [err |-> FALSE, bytes |-> <<n \div 65536, (n \div 256) % 256>>]
         ELSE IF q[3] = "=" /\ q[4] = "=" /\ last
         THEN LET n == (v1 * 64 + v2) * 4096 IN
              [err |-> FALSE, bytes |-> <<n \div 65536>>]
         ELSE [err |-> TRUE, bytes |-> <<>>]

RECURSIVE B64DecodeLoop(_, _, _)
B64DecodeLoop(s, i, bytes) ==
    IF i > Len(s) THEN [err |-> FALSE, bytes |-> bytes]
    ELSE LET q == B64Quantum(SubSeq(s, i, i + 3), i + 3 = Len(s)) IN
         IF q.err THEN [err |-> TRUE, bytes |-> <<>>]
         ELSE B64DecodeLoop(s, i + 4, bytes \o q.bytes)

\* ioutil.ReadAll(base64.NewDecoder(base64.StdEncoding, r)): line breaks are
\* filtered out, an incomplete quantum is an unexpected EOF, the unused bits
\* of the last sextet are not checked (the encoding is not Strict)
B64Decode(s) ==
    LET t == SelectSeq(s, LAMBDA c : c \notin {"\r", "\n"}) IN
    IF Len(t) % 4 # 0 THEN [err |-> TRUE, bytes |-> <<>>]
    ELSE B64DecodeLoop(t, 1, <<>>)

RECURSIVE B64Encode(_)
\* base64.StdEncoding.EncodeToString
B64Encode(b) ==
    IF b = <<>> THEN <<>>
    ELSE IF Len(b) = 1
    THEN <<B64Alphabet[(b[1] \div 4) + 1], B64Alphabet[(b[1] % 4) * 16 + 1], "=", "=">>
    ELSE IF Len(b) = 2
    THEN LET n == b[1] * 256 + b[2] IN
         <<B64Alphabet[(n \div 1024) + 1], B64Alphabet[((n \div 16) % 64) + 1],
           B64Alphabet[(n % 16) * 4 + 1], "=">>
    ELSE LET n == (b[1] * 256 + b[2]) * 256 + b[3] IN
         <<B64Alphabet[(n \div 262144) + 1], B64Alphabet[((n \div 4096) % 64) + 1],
           B64Alphabet[((n \div 64) % 64) + 1], B64Alphabet[(n % 64) + 1]>>
         \o B64Encode(SubSeq(b, 4, Len(b)))

(***************************************************************************)
(* crypto/sha1 followed by base64: the accept value of a key text.  SHA-1  *)
(* is tabulated on the key texts of the model (the values are the real     *)
(* digests); any other text gets a value that names the text, so that two  *)
(* texts have the same value only if they are equal.                       *)
(***************************************************************************)
Sha1SaltB64(text) ==
    IF text = sSampleKey
    THEN <<"s","3","p","P","L","M","B","i","T","x","a","Q","9","k","Y","G","z","z","h","Z","R","b","K","+","x","O","o","=">>
    ELSE IF text = sSampleKeyBits
    THEN <<"Z","g","w","8","j","Y","X","t","q","X","5","q","J","r","7","M","J","1","Q","/","M","q","z","e","S","R","I","=">>
    ELSE IF text = sShortKeyCanon
    THEN <<"/","Q","b","o","p","U","g","X","k","I","F","5","M","I","8","y","O","1","W","N","g","C","T","+","p","h","s","=">>
    ELSE IF text = sShortKeyBits
    THEN <<"c","f","X","h","v","D","H","2","+","l","5","K","v","p","b","H","Y","S","H","s","p","Q","u","P","3","p","o","=">>
    ELSE IF text = sShortKey
    THEN <<"/","A","u","9","m","H","u","0","W","a","s","k","i","p","6","p","G","9","w","g","m","B","5","d","X","+","8","=">>
    ELSE IF text = sSecondKey
    THEN <<"B","A","C","S","c","C","J","P","N","q","y","z","+","U","B","o","q","M","H","8","9","V","m","U","R","o","A","=">>
    ELSE <<"s", "h", "a", "1", ":">> \o text

(***************************************************************************)
(* internal/wsheaders                                                      *)
(***************************************************************************)
\* an http.Header entry
Absent == [present |-> FALSE, vals |-> <<>>]

Values(vs) == [present |-> TRUE, vals |-> vs]

One(v) == Values(<<v>>)

\* http.Header.Get: the first value, "" when there is none
Get(h) == IF h.vals = <<>> THEN <<>> ELSE h.vals[1]

\* wsheaders.getOne
getOne(h) ==
    IF Len(h.vals) = 0 THEN [err |-> TRUE, v |-> <<>>]
    ELSE IF Len(h.vals) = 1
    THEN IF h.vals[1] = <<>> THEN [err |-> TRUE, v |-> <<>>]
         ELSE [err |-> FALSE, v |-> TrimSpace(h.vals[1])]
    ELSE [err |-> TRUE, v |-> <<>>]

RECURSIVE DecVal(_)
DecVal(s) ==
    IF s = <<>> THEN 0
    ELSE DecVal(SubSeq(s, 1, Len(s) - 1)) * 10
         + ((CHOOSE i \in 1..10 : DigitChars[i] = s[Len(s)]) - 1)

\* strconv.Atoi
Atoi(s) ==
    LET body == IF s # <<>> /\ Head(s) \in {"+", "-"} THEN Tail(s) ELSE s IN
    IF body = <<>> \/ \E i \in 1..Len(body) : body[i] \notin DigitSet
    THEN [err |-> TRUE, n |-> 0]
    ELSE [err |-> FALSE,
          n |-> IF Head(s) = "-" THEN 0 - DecVal(body) ELSE DecVal(body)]

\* GetVersion as it would be without the upper end of the range
GetVersionUnbounded(h) ==
    IF getOne(h).err \/ Atoi(getOne(h).v).err \/ Atoi(getOne(h).v).n < 0
    THEN [err |-> TRUE, v |-> 0]
    ELSE [err |-> FALSE, v |-> Atoi(getOne(h).v).n]

\* wsheaders.GetVersion
GetVersion(h) ==
    LET one == getOne(h) IN
    IF one.err THEN [err |-> TRUE, v |-> 0]
    ELSE LET a == Atoi(one.v) IN
         IF a.err \/ a.n < 0 \/ a.n > 255 THEN [err |-> TRUE, v |-> 0]
         ELSE [err |-> FALSE, v |-> a.n]

\* wsheaders.GetChallenge
GetChallenge(h) ==
    LET one == getOne(h) IN
    IF one.err THEN [err |-> TRUE, bytes |-> <<>>]
    ELSE B64Decode(one.v)

\* wsheaders.hash: the challenge is encoded again before it is hashed
hash(challenge) == Sha1SaltB64(B64Encode(challenge))

\* secWebSocketAccept, accept.go: the digest of the key text as received
secWebSocketAccept(secWebSocketKey) == Sha1SaltB64(secWebSocketKey)

\* VerifyAccept as it would be if the values were compared without regard
\* to letter case
VerifyAcceptFold(h, challenge) ==
    LET one == getOne(h) IN
    IF one.err THEN "err"
    ELSE IF ~EqualFold(one.v, hash(challenge)) THEN "err"
    ELSE "ok"

\* wsheaders.VerifyAccept
VerifyAccept(h, challenge) ==
    LET one == getOne(h) IN
    IF one.err THEN "err"
    ELSE IF one.v # hash(challenge) THEN "err"
    ELSE "ok"

\* wsheaders.VerifyConnection
VerifyConnection(h) == VerifyContainsToken(h, sUpgrade)

\* wsheaders.VerifyClientUpgrade
VerifyClientUpgrade(h) == VerifyContainsToken(h, sWebSocket)

\* VerifyServerUpgrade as it would be if it used the check of the server
VerifyServerUpgradeContains(h) == VerifyContainsToken(h, sWebSocket)

\* wsheaders.VerifyServerUpgrade
VerifyServerUpgrade(h) == VerifyIsToken(h, sWebSocket)

(***************************************************************************)
(* More literal strings                                                    *)
(***************************************************************************)
sOriginExample == <<"h","t","t","p","s",":","/","/","e","x","a","m","p","l","e",".","c","o","m">>

sOriginExampleCase == <<"h","t","t","p","s",":","/","/","e","x","a","m","p","l","E",".","c","o","m">>

sOriginTwo == <<"h","t","t","p","s",":","/","/","t","w","o",".","e","x","a","m","p","l","E",".","c","o","m">>

\* a value without a scheme: url.Parse reads it as a path, its host is empty
sOriginNoScheme == <<"h","a","r","h","a","r",".","c","o","m">>

\* url.Parse fails: missing protocol scheme
sOriginBad == <<":","b","a","d">>

sHostExample == <<"e","x","a","m","p","l","e",".","c","o","m">>

sPatStarExample == <<"*",".","e","x","a","m","p","l","e",".","c","o","m">>

sPatStarExampleUpper == <<"*",".","E","X","A","M","P","L","E",".","c","o","m">>

sPatBar == <<"b","a","r",".","c","o","m">>

sPatExam3 == <<"e","x","a","m","3",".","c","o","m">>

\* a character class that is never closed: filepath.ErrBadPattern
sPatBad == <<"[">>

sPermessageDeflate == <<"p","e","r","m","e","s","s","a","g","e","-","d","e","f","l","a","t","e">>

sPermessageDeflateCase == <<"P","e","r","m","e","s","s","a","g","e","-","D","e","f","l","a","t","e">>

sClientNoContextTakeover == <<"c","l","i","e","n","t","_","n","o","_","c","o","n","t","e","x","t","_","t","a","k","e","o","v","e","r">>

sServerNoContextTakeover == <<"s","e","r","v","e","r","_","n","o","_","c","o","n","t","e","x","t","_","t","a","k","e","o","v","e","r">>

sClientMaxWindowBits == <<"c","l","i","e","n","t","_","m","a","x","_","w","i","n","d","o","w","_","b","i","t","s">>

sServerMaxWindowBits == <<"s","e","r","v","e","r","_","m","a","x","_","w","i","n","d","o","w","_","b","i","t","s">>

s15 == <<"1","5">>

s10 == <<"1","0">>

s7 == <<"7">>

s8 == <<"8">>

s16 == <<"1","6">>

sMeow == <<"m","e","o","w">>

sDeflateFrame == <<"x","-","w","e","b","k","i","t","-","d","e","f","l","a","t","e","-","f","r","a","m","e">>

sFoo == <<"f","o","o">>

sFOO == <<"F","O","O">>

sBAR == <<"B","A","R">>

sBar == <<"b","a","r">>

sFooBar == <<"f","o","o",","," ","b","a","r">>

\* two tokens without a comma between them: no token list
sFooSpaceBar == <<"f","o","o"," ","b","a","r">>

s13Padded == <<" ","1","3"," ">>

s13Plus == <<"+","1","3">>

s013 == <<"0","1","3">>

sMinus1 == <<"-","1">>

s0 == <<"0">>

s255 == <<"2","5","5">>

sGET == <<"G","E","T">>

sPOST == <<"P","O","S","T">>

(***************************************************************************)
(* net/url and path/filepath, as far as authenticateOrigin uses them       *)
(***************************************************************************)
RECURSIVE IndexOf(_, _, _)
\* strings.IndexByte from position i on; 0 when c does not occur
IndexOf(s, c, i) ==
    IF i > Len(s) THEN 0 ELSE IF s[i] = c THEN i ELSE IndexOf(s, c, i + 1)

RECURSIVE LastIndexOf(_, _, _)
LastIndexOf(s, c, i) ==
    IF i < 1 THEN 0 ELSE IF s[i] = c THEN i ELSE LastIndexOf(s, c, i - 1)

IsLetter(c) == c \in UpperSet \/ c \in LowerSet

RECURSIVE getScheme(_, _)
\* url.getScheme: [err, scheme, rest]
getScheme(s, i) ==
    IF i > Len(s) THEN [err |-> FALSE, scheme |-> <<>>, rest |-> s]
    ELSE IF IsLetter(s[i]) THEN getScheme(s, i + 1)
    ELSE IF s[i] \in DigitSet \/ s[i] \in {"+", "-", "."}
    THEN IF i = 1 THEN [err |-> FALSE, scheme |-> <<>>, rest |-> s]
         ELSE getScheme(s, i + 1)
    ELSE IF s[i] = ":"
    THEN IF i = 1 THEN [err |-> TRUE, scheme |-> <<>>, rest |-> <<>>]
         ELSE [err |-> FALSE, scheme |-> SubSeq(s, 1, i - 1),
               rest |-> SubSeq(s, i + 1, Len(s))]
    ELSE [err |-> FALSE, scheme |-> <<>>, rest |-> s]

\* url.parseHost on a host without brackets: the text after the last colon
\* is a port (digits), and no byte of the host needs escaping
validHost(host) ==
    LET colon == LastIndexOf(host, ":", Len(host)) IN
    /\ colon # 0 =>
         \A i \in colon + 1..Len(host) : host[i] \in DigitSet
    /\ \A i \in 1..Len(host) : host[i] \notin {" ", "%", "\\", "^", "|", "{", "}"}

\* url.Parse: [err, Host, Scheme].  Fragment and query are cut off, the scheme is
\* split off, and an authority follows a leading "//" up to the next "/";
\* the host is the authority after its last "@".
urlParse(raw) ==
    LET frag == IndexOf(raw, "#", 1)
        u == IF frag = 0 THEN raw ELSE SubSeq(raw, 1, frag - 1)
        sch == getScheme(u, 1)
    IN
    IF \E i \in 1..Len(u) : isControl(u[i]) THEN [err |-> TRUE, Host |-> <<>>, Scheme |-> <<>>]
    ELSE IF sch.err THEN [err |-> TRUE, Host |-> <<>>, Scheme |-> <<>>]
    ELSE LET q == IndexOf(sch.rest, "?", 1)
             rest == IF q = 0 THEN sch.rest ELSE SubSeq(sch.rest, 1, q - 1)
             slash == IndexOf(rest, "/", 1)
             segment == IF slash = 0 THEN rest ELSE SubSeq(rest, 1, slash - 1)
         IN
         IF rest = <<>> \/ Head(rest) # "/"
         THEN IF sch.scheme # <<>> THEN [err |-> FALSE, Host |-> <<>>, Scheme |-> ToLower(sch.scheme)]
              ELSE IF IndexOf(segment, ":", 1) # 0 THEN [err |-> TRUE, Host |-> <<>>, Scheme |-> <<>>]
              ELSE [err |-> FALSE, Host |-> <<>>, Scheme |-> ToLower(sch.scheme)]
         ELSE IF Len(rest) >= 2 /\ rest[2] = "/"
                 /\ (sch.scheme # <<>> \/ ~(Len(rest) >= 3 /\ rest[3] = "/"))
         THEN LET after == SubSeq(rest, 3, Len(rest))
                  end == IndexOf(after, "/", 1)
                  authority == IF end = 0 THEN after ELSE SubSeq(after, 1, end - 1)
                  at == LastIndexOf(authority, "@", Len(authority))
                  host == SubSeq(authority, at + 1, Len(authority))
              IN
              IF validHost(host) THEN [err |-> FALSE, Host |-> host, Scheme |-> ToLower(sch.scheme)]
              ELSE [err |-> TRUE, Host |-> <<>>, Scheme |-> <<>>]
         ELSE [err |-> FALSE, Host |-> <<>>, Scheme |-> ToLower(sch.scheme)]

RECURSIVE globMatch(_, _)
\* filepath.Match for a well-formed pattern of literals, "*" and "?"
globMatch(p, name) ==
    IF p = <<>> THEN name = <<>>
    ELSE IF Head(p) = "*"
    THEN \/ globMatch(Tail(p), name)
         \/ name # <<>> /\ Head(name) # "/" /\ globMatch(p, Tail(name))
    ELSE IF Head(p) = "?"
    THEN name # <<>> /\ Head(name) # "/" /\ globMatch(Tail(p), Tail(name))
    ELSE name # <<>> /\ Head(name) = Head(p) /\ globMatch(Tail(p), Tail(name))

\* websocket.match: filepath.Match on the lower-cased pattern and host.
\* In the patterns of the model a "[" opens a class that is never closed.
match(pattern, s) ==
    IF IndexOf(pattern, "[", 1) # 0 THEN [err |-> TRUE, matched |-> FALSE]
    ELSE [err |-> FALSE, matched |-> globMatch(ToLower(pattern), ToLower(s))]

RECURSIVE matchPatterns(_, _, _)
\* the loop of authenticateOrigin over originHosts: "ok", "badpattern" or
\* "unauthorized"
matchPatterns(originHosts, i, host) ==
    IF i > Len(originHosts) THEN "unauthorized"
    ELSE LET m == match(originHosts[i], host) IN
         IF m.err THEN "badpattern"
         ELSE IF m.matched THEN "ok"
         ELSE matchPatterns(originHosts, i + 1, host)

\* authenticateOrigin as it would be if an Origin that does not parse were
\* let through
authenticateOriginUnparsed(req, originHosts) ==
    LET origin == Get(req.Origin) IN
    IF origin = <<>> THEN "ok"
    ELSE LET u == urlParse(origin) IN
         IF u.err THEN "ok"
         ELSE IF EqualFold(req.Host, u.Host) THEN "ok"
         ELSE matchPatterns(originHosts, 1, u.Host)

\* websocket.authenticateOrigin: "ok", or the error: "parse", "badpattern",
\* "unauthorized"
authenticateOrigin(req, originHosts) ==
    LET origin == Get(req.Origin) IN
    IF origin = <<>> THEN "ok"
    ELSE LET u == urlParse(origin) IN
         IF u.err THEN "parse"
         ELSE IF EqualFold(req.Host, u.Host) THEN "ok"
         ELSE matchPatterns(originHosts, 1, u.Host)

(***************************************************************************)
(* internal/httpheaders: quoted strings                                    *)
(***************************************************************************)
RECURSIVE ReadQuotedStringLoop(_, _, _)
\* the loop of ReadQuotedString from position i on; str collects the
\* characters as unescape returns them
ReadQuotedStringLoop(s, i, str) ==
    IF i > Len(s) THEN [err |-> TRUE, value |-> <<>>, rest |-> <<>>]
    ELSE IF s[i] = "\\"
    THEN IF i + 1 > Len(s) THEN [err |-> TRUE, value |-> <<>>, rest |-> <<>>]
         ELSE IF ~isChar(s[i + 1]) THEN [err |-> TRUE, value |-> <<>>, rest |-> <<>>]
         ELSE ReadQuotedStringLoop(s, i + 2, Append(str, s[i + 1]))
    ELSE IF s[i] = "\""
    THEN [err |-> FALSE, value |-> str,
          rest |-> trimLeftSpace(SubSeq(s, i + 1, Len(s)))]
    ELSE ReadQuotedStringLoop(s, i + 1, Append(str, s[i]))

\* httpheaders.ReadQuotedString
ReadQuotedString(s) ==
    IF s = <<>> THEN [err |-> TRUE, value |-> <<>>, rest |-> <<>>]
    ELSE IF Head(s) # "\"" THEN [err |-> TRUE, value |-> <<>>, rest |-> <<>>]
    ELSE ReadQuotedStringLoop(s, 2, <<>>)

\* httpheaders.isText: any OCTET except CTLs, but including LWS
isText(b) == ~isControl(b) \/ isSpace(b)

RECURSIVE QuoteStringLoop(_, _)
\* the loop of QuoteString from position i on: the bytes between the quotes
QuoteStringLoop(s, i) ==
    IF i > Len(s) THEN <<>>
    ELSE IF ~isText(s[i]) \/ s[i] = "\"" \/ s[i] = "\\"
    THEN <<"\\", s[i]>> \o QuoteStringLoop(s, i + 1)
    ELSE <<s[i]>> \o QuoteStringLoop(s, i + 1)

\* a variant of QuoteString: nothing is escaped
QuoteStringPlain(s) == <<"\"">> \o s \o <<"\"">>

\* httpheaders.QuoteString
QuoteString(s) == <<"\"">> \o QuoteStringLoop(s, 1) \o <<"\"">>

\* httpheaders.ReadString
ReadString(s) ==
    IF s = <<>> THEN [err |-> TRUE, value |-> <<>>, rest |-> <<>>]
    ELSE IF Head(s) = "\"" THEN ReadQuotedString(s)
    ELSE LET t == ReadToken(s) IN
         [err |-> t.err, value |-> t.token, rest |-> t.rest]

(***************************************************************************)
(* internal/wsheaders: Sec-WebSocket-Extensions                            *)
(***************************************************************************)
HasPrefix(s, c) == s # <<>> /\ Head(s) = c

NoParam == [err |-> TRUE, param |-> [Name |-> <<>>, Value |-> <<>>], rest |-> <<>>]

NoExtension == [err |-> TRUE, ext |-> [Name |-> <<>>, Params |-> <<>>], rest |-> <<>>]

\* a variant of parseParam after the "=": the value need not be a token
parseParamValueAny(name, v) ==
    IF v.err THEN NoParam
    ELSE [err |-> FALSE, param |-> [Name |-> name, Value |-> v.value], rest |-> v.rest]

\* wsheaders.parseParam after the "=": v is what ReadString returned
parseParamValue(name, v) ==
    IF v.err \/ ~IsToken(v.value) THEN NoParam
    ELSE [err |-> FALSE, param |-> [Name |-> name, Value |-> v.value], rest |-> v.rest]

\* wsheaders.parseParam after the name: n is what ReadToken returned
parseParamName(n) ==
    IF n.err THEN NoParam
    ELSE IF ~HasPrefix(n.rest, "=")
    THEN [err |-> FALSE, param |-> [Name |-> n.token, Value |-> <<>>], rest |-> n.rest]
    ELSE parseParamValue(n.token, ReadString(trimLeftSpace(Tail(n.rest))))

\* wsheaders.parseParam
parseParam(s) == parseParamName(ReadToken(s))

RECURSIVE parseExtensionParams(_, _, _)
\* the loop of parseExtension after a parameter: p is what parseParam returned
parseExtensionParam(name, params, p) ==
    IF p.err THEN NoExtension
    ELSE parseExtensionParams(name, Append(params, p.param), p.rest)

\* the loop of parseExtension over the parameters that follow a ";"
parseExtensionParams(name, params, rest) ==
    IF ~HasPrefix(rest, ";")
    THEN [err |-> FALSE, ext |-> [Name |-> name, Params |-> params], rest |-> rest]
    ELSE parseExtensionParam(name, params, parseParam(trimLeftSpace(Tail(rest))))

\* wsheaders.parseExtension after the name: n is what ReadToken returned
parseExtensionName(n) ==
    IF n.err THEN NoExtension ELSE parseExtensionParams(n.token, <<>>, n.rest)

\* wsheaders.parseExtension
parseExtension(s) == parseExtensionName(ReadToken(s))

RECURSIVE parseExtensionListLoop(_, _)
\* the loop of parseExtensionList after the separator: next is what
\* follows it, more the extensions parsed so far
parseExtensionListNext(next, more) ==
    IF next = <<>> THEN [err |-> FALSE, exts |-> more]
    ELSE parseExtensionListLoop(next, more)

\* the loop of parseExtensionList after an extension: e is what
\* parseExtension returned
parseExtensionListElem(e, exts) ==
    IF e.err THEN [err |-> TRUE, exts |-> <<>>]
    ELSE IF e.rest = <<>> THEN [err |-> FALSE, exts |-> Append(exts, e.ext)]
    ELSE IF ~HasPrefix(e.rest, ",") THEN [err |-> TRUE, exts |-> <<>>]
    ELSE parseExtensionListNext(trimLeftCommaOrSpace(e.rest), Append(exts, e.ext))

\* the loop of parseExtensionList
parseExtensionListLoop(rest, exts) == parseExtensionListElem(parseExtension(rest), exts)

\* a variant of parseExtensionList: a value without any element is an empty
\* list
parseExtensionListOrNone(val) ==
    IF trimLeftCommaOrSpace(val) = <<>> THEN [err |-> FALSE, exts |-> <<>>]
    ELSE parseExtensionListLoop(trimLeftCommaOrSpace(val), <<>>)

\* wsheaders.parseExtensionList
parseExtensionList(val) == parseExtensionListLoop(trimLeftCommaOrSpace(val), <<>>)

RECURSIVE ParseExtensionsLoop(_, _, _)
\* the loop of ParseExtensions after a value: v is what parseExtensionList
\* returned
ParseExtensionsValue(values, i, exts, v) ==
    IF v.err THEN [err |-> TRUE, exts |-> <<>>]
    ELSE ParseExtensionsLoop(values, i + 1, exts \o v.exts)

\* the loop of ParseExtensions over the values of the header
ParseExtensionsLoop(values, i, exts) ==
    IF i > Len(values) THEN [err |-> FALSE, exts |-> exts]
    ELSE ParseExtensionsValue(values, i, exts, parseExtensionList(values[i]))

\* a variant of ParseExtensions: a value that does not parse is passed over
ParseExtensionsLenient(h) ==
    [err |-> FALSE,
     exts |-> ParseExtensionsLoop(
                 SelectSeq(h.vals, LAMBDA v : ~parseExtensionList(v).err), 1, <<>>).exts]

\* wsheaders.ParseExtensions
ParseExtensions(h) == ParseExtensionsLoop(h.vals, 1, <<>>)

RECURSIVE Join(_, _)
\* strings.Join
Join(elems, sep) ==
    IF elems = <<>> THEN <<>>
    ELSE IF Len(elems) = 1 THEN elems[1]
    ELSE elems[1] \o sep \o Join(Tail(elems), sep)

\* a variant of ExtensionParam.String: the name alone
ExtensionParamStringName(p) == p.Name

\* wsheaders.ExtensionParam.String
ExtensionParamString(p) ==
    IF p.Value = <<>> THEN p.Name ELSE p.Name \o <<"=">> \o p.Value

\* wsheaders.Extension.String
ExtensionString(e) ==
    Join(<<e.Name>> \o [i \in 1..Len(e.Params) |-> ExtensionParamString(e.Params[i])],
         <<";", " ">>)

\* wsheaders.Extensions.String
ExtensionsString(exts) ==
    Join([i \in 1..Len(exts) |-> ExtensionString(exts[i])], <<",", " ">>)

(***************************************************************************)
(* permessage-deflate: the negotiation of the server                       *)
(***************************************************************************)
CompressionModes == {"CompressionDisabled", "CompressionNoContextTakeover",
                     "CompressionContextTakeover"}

\* a nil *compressionOptions
NilCopts ==
    [nil |-> TRUE, clientNoContextTakeover |-> FALSE, serverNoContextTakeover |-> FALSE]

Copts(c, s) ==
    [nil |-> FALSE, clientNoContextTakeover |-> c, serverNoContextTakeover |-> s]

\* CompressionMode.opts: both flags are set for CompressionNoContextTakeover
modeOpts(mode) ==
    Copts(mode = "CompressionNoContextTakeover", mode = "CompressionNoContextTakeover")

\* isValidWindowBits: a decimal number in 8-15
isValidWindowBits(v) ==
    LET a == Atoi(v) IN ~a.err /\ a.n >= 8 /\ a.n <= 15

\* compressionOptions.extension: permessage-deflate with one parameter for
\* each flag that is set
coptsExtension(copts) ==
    [Name |-> sPermessageDeflate,
     Params |->
        (IF copts.clientNoContextTakeover
         THEN <<[Name |-> sClientNoContextTakeover, Value |-> <<>>]>> ELSE <<>>)
        \o
        (IF copts.serverNoContextTakeover
         THEN <<[Name |-> sServerNoContextTakeover, Value |-> <<>>]>> ELSE <<>>)]

RECURSIVE acceptDeflateLoop(_, _, _, _)
\* the loop of acceptDeflate over params; seen is the set of names met
acceptDeflateLoop(params, i, seen, copts) ==
    IF i > Len(params) THEN [ok |-> TRUE, copts |-> copts]
    ELSE LET p == params[i] IN
         IF p.Name \in seen THEN [ok |-> FALSE, copts |-> NilCopts]
         ELSE IF p.Name = sClientNoContextTakeover /\ p.Value = <<>>
         THEN acceptDeflateLoop(params, i + 1, seen \cup {p.Name},
                                [copts EXCEPT !.clientNoContextTakeover = TRUE])
         ELSE IF p.Name = sServerNoContextTakeover /\ p.Value = <<>>
         THEN acceptDeflateLoop(params, i + 1, seen \cup {p.Name},
                                [copts EXCEPT !.serverNoContextTakeover = TRUE])
         ELSE IF p.Name = sClientMaxWindowBits
                 /\ (p.Value = <<>> \/ isValidWindowBits(p.Value))
         THEN acceptDeflateLoop(params, i + 1, seen \cup {p.Name}, copts)
         ELSE IF p.Name = sServerMaxWindowBits /\ p.Value = s15
         THEN acceptDeflateLoop(params, i + 1, seen \cup {p.Name}, copts)
         ELSE [ok |-> FALSE, copts |-> NilCopts]

\* a variant of acceptDeflate: the options of the mode, whatever the
\* parameters of the offer
acceptDeflateModeOnly(mode, params) ==
    IF acceptDeflateLoop(params, 1, {}, modeOpts(mode)).ok
    THEN [ok |-> TRUE, copts |-> modeOpts(mode)]
    ELSE [ok |-> FALSE, copts |-> NilCopts]

\* a variant of acceptDeflate: only the first parameter is examined
acceptDeflateFirstParam(mode, params) ==
    acceptDeflateLoop(SubSeq(params, 1, IF Len(params) > 0 THEN 1 ELSE 0),
                      1, {}, modeOpts(mode))

\* websocket.acceptDeflate
acceptDeflate(mode, params) == acceptDeflateLoop(params, 1, {}, modeOpts(mode))

\* selectDeflate as it would be if only the first permessage-deflate offer
\* were considered
selectDeflateFirstOnly(mode, exts) ==
    LET offers == {i \in 1..Len(exts) : exts[i].Name = sPermessageDeflate} IN
    IF mode = "CompressionDisabled" \/ offers = {}
    THEN [ok |-> FALSE, copts |-> NilCopts]
    ELSE acceptDeflate(mode, exts[CHOOSE i \in offers : \A j \in offers : i <= j].Params)

RECURSIVE selectDeflateLoop(_, _, _)
\* the loop of selectDeflate over exts
selectDeflateLoop(mode, exts, i) ==
    IF i > Len(exts) THEN [ok |-> FALSE, copts |-> NilCopts]
    ELSE IF exts[i].Name = sPermessageDeflate
    THEN LET a == acceptDeflate(mode, exts[i].Params) IN
         IF a.ok THEN a ELSE selectDeflateLoop(mode, exts, i + 1)
    ELSE selectDeflateLoop(mode, exts, i + 1)

\* websocket.selectDeflate
selectDeflate(mode, exts) ==
    IF mode = "CompressionDisabled" THEN [ok |-> FALSE, copts |-> NilCopts]
    ELSE selectDeflateLoop(mode, exts, 1)

(***************************************************************************)
(* internal/wsheaders: Sec-WebSocket-Protocol                              *)
(***************************************************************************)
\* wsheaders.ParseProtocols
ParseProtocols(h) == ParseTokenLists(h.vals)

RECURSIVE SelectProtocolLoop(_, _, _)
SelectProtocolLoop(offered, supported, i) ==
    IF i > Len(supported) THEN [ok |-> FALSE, proto |-> <<>>]
    ELSE IF ContainsToken(offered, supported[i])
    THEN [ok |-> TRUE, proto |-> supported[i]]
    ELSE SelectProtocolLoop(offered, supported, i + 1)

RECURSIVE SelectProtocolOfferedLoop(_, _, _)
SelectProtocolOfferedLoop(offered, supported, j) ==
    IF j > Len(offered) THEN [ok |-> FALSE, proto |-> <<>>]
    ELSE IF \E i \in 1..Len(supported) : EqualFold(supported[i], offered[j])
    THEN [ok |-> TRUE,
          proto |-> supported[CHOOSE i \in 1..Len(supported) :
                                  EqualFold(supported[i], offered[j])]]
    ELSE SelectProtocolOfferedLoop(offered, supported, j + 1)

\* SelectProtocol as it would be if the order of the client decided
SelectProtocolOfferedOrder(h, supported) ==
    IF ParseProtocols(h).err THEN [ok |-> FALSE, proto |-> <<>>]
    ELSE SelectProtocolOfferedLoop(ParseProtocols(h).tokens, supported, 1)

\* wsheaders.SelectProtocol
SelectProtocol(h, supported) ==
    LET offered == ParseProtocols(h) IN
    IF offered.err THEN [ok |-> FALSE, proto |-> <<>>]
    ELSE SelectProtocolLoop(offered.tokens, supported, 1)

(***************************************************************************)
(* The server: Accept                                                      *)
(*                                                                         *)
(* r is the request, opts the AcceptOptions, w the http.ResponseWriter:    *)
(* whether it implements http.Hijacker, its header map, the status codes   *)
(* of the WriteHeader calls made on it in order (the first one is the      *)
(* status of the response), the error text written as its body and         *)
(* whether the transport was taken over.  pc is the position in accept,    *)
(* challenge, subproto and copts are its locals, ret is what it returned.  *)
(***************************************************************************)
VARIABLES r, opts, w, pc, challenge, subproto, copts, ret

(***************************************************************************)
(* The client: Dial                                                        *)
(*                                                                         *)
(* urls and dialOpts are the arguments of dial and rand holds the bytes    *)
(* its randomness source yields.  peer is the server at the other end:     *)
(* whether the request reaches it and how it answers.  dialPc is the       *)
(* position in dial, dialChallenge and dialCopts are its locals, dialReq  *)
(* is the request it sent, resp the response it got and dialRet what it    *)
(* returned.                                                               *)
(***************************************************************************)
VARIABLES urls, dialOpts, rand, peer, dialPc, dialChallenge, dialCopts, dialReq, resp, dialRet

\* callerOpts is the DialOptions value of the caller (nil when the caller
\* passed no options).  respBody is the body of the response: how many bytes
\* the peer sends, whether the stream stalls instead of ending after them,
\* how many bytes were read and whether it is closed.  timer is the timer
\* of the deferred function of dial.
VARIABLES callerOpts, respBody, timer

\* The transport of the server.  stream is what the client sends after its
\* request, netConn the part of it that nobody has read from the transport,
\* brwReader the bufio.Reader of the http server (its buffer, the bounds r
\* and w of the unread bytes in it, and whether it reads from the transport
\* or from the reader accept makes), peeked the slice of that buffer accept
\* takes with Peek and how far it has been read, connIn the bytes the
\* Connection has read from its reader.
VARIABLES stream, netConn, brwReader, peeked, connIn

acceptVars == <<r, opts, w, pc, challenge, subproto, copts, ret>>

connVars == <<stream, netConn, brwReader, peeked, connIn>>

\* The pools of buffers.  readers and writers are the bufio.Readers and
\* bufio.Writers there are: whether the buffer was made and the stream it
\* wraps, which is the body of the connection of that number;
\* bufioReaderPool and bufioWriterPool are the buffers in the pools; conns
\* are the client connections: how far each is and the buffers it has.
VARIABLES readers, writers, bufioReaderPool, bufioWriterPool, conns

poolVars == <<readers, writers, bufioReaderPool, bufioWriterPool, conns>>

dialVars ==
    <<urls, dialOpts, rand, peer, dialPc, dialChallenge, dialCopts, dialReq, resp,
      dialRet, callerOpts, respBody, timer>>

\* A function of the header packages called on its own.  arg is the
\* argument, a string or the values a header map holds under one key, fn
\* the function that was applied last and out what it returned.
VARIABLES arg, fn, out

callVars == <<arg, fn, out>>

vars == <<acceptVars, dialVars, connVars, poolVars, callVars>>

StatusSwitchingProtocols == 101

StatusBadRequest == 400

StatusForbidden == 403

StatusMethodNotAllowed == 405

StatusUpgradeRequired == 426

StatusInternalServerError == 500

StatusNotImplemented == 501

\* http.Request.ProtoAtLeast
ProtoAtLeast(req, major, minor) ==
    \/ req.Proto[1] > major
    \/ req.Proto[1] = major /\ req.Proto[2] >= minor

\* wsheaders.SetConnection
SetConnection(h) == [h EXCEPT !.Connection = One(sUpgrade)]

\* wsheaders.SetUpgrade
SetUpgrade(h) == [h EXCEPT !.Upgrade = One(sWebSocket)]

\* wsheaders.SetVersion(h, 13)
SetVersion(h) == [h EXCEPT !.Version = One(s13)]

\* wsheaders.SetAccept
SetAccept(h, chal) == [h EXCEPT !.Accept = One(hash(chal))]

\* wsheaders.SetProtocols
SetProtocols(h, proto) == [h EXCEPT !.Protocol = One(proto)]

\* wsheaders.SetExtensions
SetExtensions(h, exts) == [h EXCEPT !.Extensions = One(ExtensionsString(exts))]

\* verifyClientRequest as it would be if the method were checked before the
\* Connection header
verifyClientRequestMethodFirst(h, req) ==
    IF ~ProtoAtLeast(req, 1, 1)
    THEN [err |-> "proto", errCode |-> StatusUpgradeRequired,
          challenge |-> <<>>, header |-> h]
    ELSE IF req.Method # sGET
    THEN [err |-> "method", errCode |-> StatusMethodNotAllowed,
          challenge |-> <<>>, header |-> h]
    ELSE IF VerifyConnection(req.Connection) # "ok"
    THEN [err |-> "connection", errCode |-> StatusUpgradeRequired,
          challenge |-> <<>>, header |-> SetUpgrade(SetConnection(h))]
    ELSE IF VerifyClientUpgrade(req.Upgrade) # "ok"
    THEN [err |-> "upgrade", errCode |-> StatusUpgradeRequired,
          challenge |-> <<>>, header |-> SetUpgrade(SetConnection(h))]
    ELSE IF GetVersion(req.Version).v # 13
    THEN [err |-> "version",
          errCode |-> IF GetVersion(req.Version).err THEN StatusUpgradeRequired
                      ELSE StatusBadRequest,
          challenge |-> <<>>, header |-> SetVersion(h)]
    ELSE IF GetChallenge(req.Key).err
    THEN [err |-> "key", errCode |-> StatusBadRequest,
          challenge |-> <<>>, header |-> h]
    ELSE [err |-> "none", errCode |-> 0,
          challenge |-> GetChallenge(req.Key).bytes, header |-> h]

\* websocket.verifyClientRequest: the failing check ("none" when all pass),
\* its status code, the challenge and the header of w with the hints it set
verifyClientRequest(h, req) ==
    IF ~ProtoAtLeast(req, 1, 1)
    THEN [err |-> "proto", errCode |-> StatusUpgradeRequired,
          challenge |-> <<>>, header |-> h]
    ELSE IF VerifyConnection(req.Connection) # "ok"
    THEN [err |-> "connection", errCode |-> StatusUpgradeRequired,
          challenge |-> <<>>, header |-> SetUpgrade(SetConnection(h))]
    ELSE IF VerifyClientUpgrade(req.Upgrade) # "ok"
    THEN [err |-> "upgrade", errCode |-> StatusUpgradeRequired,
          challenge |-> <<>>, header |-> SetUpgrade(SetConnection(h))]
    ELSE IF req.Method # sGET
    THEN [err |-> "method", errCode |-> StatusMethodNotAllowed,
          challenge |-> <<>>, header |-> h]
    ELSE LET v == GetVersion(req.Version) IN
         IF v.v # 13
         THEN IF v.err
              THEN [err |-> "version", errCode |-> StatusUpgradeRequired,
                    challenge |-> <<>>, header |-> SetVersion(h)]
              ELSE [err |-> "version", errCode |-> StatusBadRequest,
                    challenge |-> <<>>, header |-> SetVersion(h)]
         ELSE LET c == GetChallenge(req.Key) IN
              IF c.err
              THEN [err |-> "key", errCode |-> StatusBadRequest,
                    challenge |-> <<>>, header |-> h]
              ELSE [err |-> "none", errCode |-> 0,
                    challenge |-> c.bytes, header |-> h]

\* http.ResponseWriter.WriteHeader
WriteHeader(rw, code) == [rw EXCEPT !.codes = Append(@, code)]

\* http.Error: WriteHeader(code), then the text as the body
HttpError(rw, text, code) == [WriteHeader(rw, code) EXCEPT !.body = text]

\* the status of the response: that of the first WriteHeader call
Status(rw) == IF rw.codes = <<>> THEN 0 ELSE rw.codes[1]

NoHeader ==
    [Connection |-> Absent, Upgrade |-> Absent, Version |-> Absent,
     Accept |-> Absent, Protocol |-> Absent, Extensions |-> Absent]

NoProto == [ok |-> FALSE, proto |-> <<>>]

NoDeflate == [ok |-> FALSE, copts |-> NilCopts]

NoRet == [conn |-> FALSE, err |-> "none", subprotocol |-> <<>>, copts |-> NilCopts]

\* accept, part_002 lines 83-87
VerifyRequest ==
    /\ pc = "verify"
    /\ LET v == verifyClientRequest(w.header, r) IN
       IF v.err # "none"
       THEN /\ w' = HttpError([w EXCEPT !.header = v.header], v.err, v.errCode)
            /\ ret' = [ret EXCEPT !.err = v.err]
            /\ pc' = "done"
            /\ UNCHANGED challenge
       ELSE /\ challenge' = v.challenge
            /\ pc' = "origin"
            /\ UNCHANGED <<w, ret>>
    /\ UNCHANGED <<r, opts, subproto, copts>>
    /\ UNCHANGED <<dialVars, connVars, poolVars, callVars>>

\* accept, part_002 lines 89-99
AuthenticateOrigin ==
    /\ pc = "origin"
    /\ LET a == IF opts.InsecureSkipVerify THEN "ok"
                ELSE authenticateOrigin(r, opts.OriginPatterns)
       IN
       IF a # "ok"
       THEN /\ w' = HttpError(w, a, StatusForbidden)
            /\ ret' = [ret EXCEPT !.err = "origin"]
            /\ pc' = "done"
       ELSE /\ pc' = "hijacker"
            /\ UNCHANGED <<w, ret>>
    /\ UNCHANGED <<r, opts, challenge, subproto, copts>>
    /\ UNCHANGED <<dialVars, connVars, poolVars, callVars>>

\* a variant of CheckHijacker: a writer that is no http.Hijacker passes
CheckHijackerSkipped ==
    /\ pc = "hijacker"
    /\ pc' = "headers"
    /\ UNCHANGED <<w, ret>>
    /\ UNCHANGED <<r, opts, challenge, subproto, copts>>
    /\ UNCHANGED <<dialVars, connVars, poolVars, callVars>>

\* accept, part_002 lines 101-106
CheckHijacker ==
    /\ pc = "hijacker"
    /\ IF ~w.hijacker
       THEN /\ w' = HttpError(w, "Not Implemented", StatusNotImplemented)
            /\ ret' = [ret EXCEPT !.err = "hijacker"]
            /\ pc' = "done"
       ELSE /\ pc' = "headers"
            /\ UNCHANGED <<w, ret>>
    /\ UNCHANGED <<r, opts, challenge, subproto, copts>>
    /\ UNCHANGED <<dialVars, connVars, poolVars, callVars>>

\* accept, part_002 lines 108-110
withUpgrade(h, chal) == SetAccept(SetConnection(SetUpgrade(h)), chal)

\* accept, part_002 lines 113-115: sp is what SelectProtocol returned
withProtocol(h, sp) == IF sp.ok THEN SetProtocols(h, sp.proto) ELSE h

\* withExtensions as it would be if the header were set whatever the
\* negotiation returned
withExtensionsAlways(h, d) == SetExtensions(h, <<coptsExtension(d.copts)>>)

\* accept, part_002 lines 119-121: d is what selectDeflate returned
withExtensions(h, d) ==
    IF d.ok THEN SetExtensions(h, <<coptsExtension(d.copts)>>) ELSE h

\* accept, part_002 lines 108-121
SetResponseHeaders ==
    /\ pc = "headers"
    /\ subproto' = SelectProtocol(r.Protocol, opts.Subprotocols)
    /\ copts' = selectDeflate(opts.CompressionMode, ParseExtensions(r.Extensions).exts)
    /\ w' = [w EXCEPT !.header =
                withExtensions(withProtocol(withUpgrade(@, challenge), subproto'), copts')]
    /\ pc' = "switch"
    /\ UNCHANGED <<r, opts, challenge, ret>>
    /\ UNCHANGED <<dialVars, connVars, poolVars, callVars>>

\* the size of the buffer of a bufio.Reader
BufSize == 4

\* the most bytes the client sends after its request
MaxStream == 5

\* the lengths of the buffers the Connection reads into
ReadLens == {1, 2, BufSize, BufSize + 1}

\* the first n elements of s, all of s when it has fewer
Take(s, n) == IF n >= Len(s) THEN s ELSE SubSeq(s, 1, n)

\* s without its first n elements
Drop(s, n) == IF n >= Len(s) THEN <<>> ELSE SubSeq(s, n + 1, Len(s))

\* no slice
NoPeek == [off |-> 0, len |-> 0, i |-> 0]

\* brw.Reader.Peek(brw.Reader.Buffered()): the slice of the buffer that holds
\* the unread bytes, not a copy of them
Peek(b) == [off |-> b.r, len |-> b.w - b.r, i |-> 0]

\* bufio.Reader.Reset: the buffer is kept and counts as empty
Reset(b, rd) == [b EXCEPT !.r = 0, !.w = 0, !.rd = rd]

\* the unread bytes of the slice p of the buffer of b, as the buffer has
\* them now
unread(b, p) == SubSeq(b.buf, p.off + p.i + 1, p.off + p.len)

\* a variant of multiRead: the bytes of the transport alone
netRead(b, p, net, n, k) ==
    [data |-> Take(net, k), peeked |-> p, netConn |-> Drop(net, k)]

\* one Read of n bytes from io.MultiReader(bytes.NewReader(b), netConn),
\* part_002 line 137: the rest of the slice first, then the transport, which
\* gives k bytes
multiRead(b, p, net, n, k) ==
    IF p.i < p.len
    THEN [data |-> Take(unread(b, p), n),
          peeked |-> [p EXCEPT !.i = @ + Len(Take(unread(b, p), n))],
          netConn |-> net]
    ELSE [data |-> Take(net, k), peeked |-> p, netConn |-> Drop(net, k)]

\* one Read of n bytes from the reader b reads from
sourceRead(b, p, net, n, k) ==
    IF b.rd = "multi" THEN multiRead(b, p, net, n, k)
    ELSE [data |-> Take(net, k), peeked |-> p, netConn |-> Drop(net, k)]

\* the buffer of b after data was read into its beginning
filled(b, data) == data \o Drop(b.buf, Len(data))

\* accept, part_002 lines 123-127
WriteSwitchingProtocols ==
    /\ pc = "switch"
    /\ w' = WriteHeader(w, StatusSwitchingProtocols)
    /\ pc' = "hijack"
    /\ UNCHANGED <<r, opts, challenge, subproto, copts, ret>>
    /\ UNCHANGED <<dialVars, connVars, poolVars, callVars>>

\* accept, part_002 lines 129-149, when hj.Hijack() succeeds
HijackOK ==
    /\ pc = "hijack"
    /\ w' = [w EXCEPT !.hijacked = TRUE]
    /\ peeked' = Peek(brwReader)
    /\ brwReader' = Reset(brwReader, "multi")
    /\ ret' = [conn |-> TRUE, err |-> "none",
               subprotocol |-> subproto.proto, copts |-> copts.copts]
    /\ pc' = "done"
    /\ UNCHANGED <<r, opts, challenge, subproto, copts>>
    /\ UNCHANGED <<stream, netConn, connIn>>
    /\ UNCHANGED <<dialVars, poolVars, callVars>>

\* accept, part_002 lines 129-134, when hj.Hijack() fails
HijackFails ==
    /\ pc = "hijack"
    /\ w' = HttpError(w, "Internal Server Error", StatusInternalServerError)
    /\ ret' = [ret EXCEPT !.err = "hijack"]
    /\ pc' = "done"
    /\ UNCHANGED <<r, opts, challenge, subproto, copts>>
    /\ UNCHANGED <<dialVars, connVars, poolVars, callVars>>

\* the Connection reads n bytes from br, the reader accept gave it
\* (part_002 lines 136-148); bufio.Reader.Read copies what is buffered, and
\* with an empty buffer reads from its source once, into the buffer or, for
\* n not below the size of the buffer, straight to the caller; the
\* transport gives k bytes
ConnRead ==
    /\ pc = "done"
    /\ ret.conn
    /\ \E n \in ReadLens, k \in 1..BufSize + 1 :
          IF brwReader.r # brwReader.w
          THEN /\ connIn' = connIn \o
                      Take(SubSeq(brwReader.buf, brwReader.r + 1, brwReader.w), n)
               /\ brwReader' = [brwReader EXCEPT !.r =
                      IF n > brwReader.w - brwReader.r THEN brwReader.w ELSE @ + n]
               /\ k = 1
               /\ UNCHANGED <<peeked, netConn>>
          ELSE IF n >= BufSize
          THEN /\ k <= n
               /\ sourceRead(brwReader, peeked, netConn, n, k).data # <<>>
               /\ connIn' = connIn \o sourceRead(brwReader, peeked, netConn, n, k).data
               /\ peeked' = sourceRead(brwReader, peeked, netConn, n, k).peeked
               /\ netConn' = sourceRead(brwReader, peeked, netConn, n, k).netConn
               /\ UNCHANGED brwReader
          ELSE /\ k <= BufSize
               /\ sourceRead(brwReader, peeked, netConn, BufSize, k).data # <<>>
               /\ peeked' = sourceRead(brwReader, peeked, netConn, BufSize, k).peeked
               /\ netConn' = sourceRead(brwReader, peeked, netConn, BufSize, k).netConn
               /\ connIn' = connIn \o
                      Take(sourceRead(brwReader, peeked, netConn, BufSize, k).data, n)
               /\ brwReader' = [brwReader EXCEPT
                      !.buf = filled(brwReader,
                                     sourceRead(brwReader, peeked, netConn, BufSize, k).data),
                      !.w = Len(sourceRead(brwReader, peeked, netConn, BufSize, k).data),
                      !.r = Len(Take(sourceRead(brwReader, peeked, netConn, BufSize, k).data, n))]
    /\ UNCHANGED <<stream, acceptVars, dialVars, poolVars, callVars>>


(***************************************************************************)
(* Dial                                                                    *)
(***************************************************************************)
sWs == <<"w","s">>

sWss == <<"w","s","s">>

sHttp == <<"h","t","t","p">>

sHttps == <<"h","t","t","p","s">>

sServerMaxWindowBitsEq == <<"s","e","r","v","e","r","_","m","a","x","_","w","i","n","d","o","w","_","b","i","t","s","=">>

\* the length of the challenge generateChallenge reads
ChallengeLen == 16

\* the positions of the separator sep in s
SepPositions(s, sep) == {i \in 1..Len(s) : s[i] = sep}

\* the position of the k-th separator in s, 0 before the first and
\* Len(s) + 1 after the last
SepPosition(s, sep, k) ==
    IF k = 0 THEN 0
    ELSE IF k > Cardinality(SepPositions(s, sep)) THEN Len(s) + 1
    ELSE CHOOSE i \in SepPositions(s, sep) :
            Cardinality({j \in SepPositions(s, sep) : j < i}) = k - 1

\* strings.Split on the one-character separator sep: the texts between
\* the separators
Split(s, sep) ==
    [k \in 1..Cardinality(SepPositions(s, sep)) + 1 |->
        SubSeq(s, SepPosition(s, sep, k - 1) + 1, SepPosition(s, sep, k) - 1)]

\* strings.HasPrefix
HasPrefixString(s, prefix) ==
    Len(s) >= Len(prefix) /\ SubSeq(s, 1, Len(prefix)) = prefix

RECURSIVE headerTokensLoop(_, _)
\* the loops of headerTokens: the elements of every value, lower-cased
\* and trimmed
headerTokensLoop(values, i) ==
    IF i > Len(values) THEN <<>>
    ELSE [k \in 1..Len(Split(TrimSpace(values[i]), ",")) |->
             TrimSpace(ToLower(Split(TrimSpace(values[i]), ",")[k]))]
         \o headerTokensLoop(values, i + 1)

\* websocket.headerTokens
headerTokens(h) == headerTokensLoop(h.vals, 1)

\* one element of the header as an extension: the text before the first
\* ";" is its name, the texts between the following ones its parameters
websocketExtension(extStr) ==
    [name |-> TrimSpace(Head(Split(extStr, ";"))),
     params |-> [k \in 1..Len(Split(extStr, ";")) - 1 |->
                    TrimSpace(Split(extStr, ";")[k + 1])]]

RECURSIVE websocketExtensionsLoop(_, _)
websocketExtensionsLoop(extStrs, i) ==
    IF i > Len(extStrs) THEN <<>>
    ELSE IF extStrs[i] = <<>> THEN websocketExtensionsLoop(extStrs, i + 1)
    ELSE <<websocketExtension(extStrs[i])>> \o websocketExtensionsLoop(extStrs, i + 1)

\* websocket.websocketExtensions: the non-empty elements of the header
websocketExtensions(h) == websocketExtensionsLoop(headerTokens(h), 1)

\* compressionOptions.String: the offer of the client
coptsString(c) == ExtensionString(coptsExtension(c))

\* verifySubprotocol as it would be if the letter case had to agree
verifySubprotocolExact(subprotos, response) ==
    \/ Get(response.Protocol) = <<>>
    \/ \E i \in 1..Len(subprotos) : subprotos[i] = Get(response.Protocol)

\* websocket.verifySubprotocol
verifySubprotocol(subprotos, response) ==
    \/ Get(response.Protocol) = <<>>
    \/ \E i \in 1..Len(subprotos) : EqualFold(subprotos[i], Get(response.Protocol))

RECURSIVE verifyServerParamsBits(_, _, _)
\* the loop of verifyServerExtensions as it would be if the window bits of
\* the server had to be a number in 8-15
verifyServerParamsBits(params, i, c) ==
    IF i > Len(params) THEN [err |-> "none", copts |-> c]
    ELSE IF params[i] = sClientNoContextTakeover
    THEN verifyServerParamsBits(params, i + 1, [c EXCEPT !.clientNoContextTakeover = TRUE])
    ELSE IF params[i] = sServerNoContextTakeover
    THEN verifyServerParamsBits(params, i + 1, [c EXCEPT !.serverNoContextTakeover = TRUE])
    ELSE IF /\ HasPrefixString(params[i], sServerMaxWindowBitsEq)
            /\ isValidWindowBits(SubSeq(params[i], Len(sServerMaxWindowBitsEq) + 1,
                                         Len(params[i])))
    THEN verifyServerParamsBits(params, i + 1, c)
    ELSE [err |-> "extensions", copts |-> NilCopts]

\* the loop of verifyServerExtensions as it would be if the client kept the
\* options it offered whatever the parameters of the response
verifyServerParamsKept(params, i, c) == [err |-> "none", copts |-> c]

RECURSIVE verifyServerParams(_, _, _)
\* the loop of verifyServerExtensions over the parameters
verifyServerParams(params, i, c) ==
    IF i > Len(params) THEN [err |-> "none", copts |-> c]
    ELSE IF params[i] = sClientNoContextTakeover
    THEN verifyServerParams(params, i + 1, [c EXCEPT !.clientNoContextTakeover = TRUE])
    ELSE IF params[i] = sServerNoContextTakeover
    THEN verifyServerParams(params, i + 1, [c EXCEPT !.serverNoContextTakeover = TRUE])
    ELSE IF HasPrefixString(params[i], sServerMaxWindowBitsEq)
    THEN verifyServerParams(params, i + 1, c)
    ELSE [err |-> "extensions", copts |-> NilCopts]

\* verifyServerExtensions as it would be if extensions after the first were
\* ignored
verifyServerExtensionListFirst(c, exts) ==
    IF Len(exts) = 0 THEN [err |-> "none", copts |-> NilCopts]
    ELSE IF exts[1].name # sPermessageDeflate \/ c.nil
    THEN [err |-> "extensions", copts |-> NilCopts]
    ELSE verifyServerParams(exts[1].params, 1, c)

\* websocket.verifyServerExtensions on the extensions of the response
verifyServerExtensionList(c, exts) ==
    IF Len(exts) = 0 THEN [err |-> "none", copts |-> NilCopts]
    ELSE IF exts[1].name # sPermessageDeflate \/ Len(exts) > 1 \/ c.nil
    THEN [err |-> "extensions", copts |-> NilCopts]
    ELSE verifyServerParams(exts[1].params, 1, c)

\* websocket.verifyServerExtensions
verifyServerExtensions(c, h) == verifyServerExtensionList(c, websocketExtensions(h))

\* websocket.verifyServerResponse: the failing check ("none" when all pass)
\* and the negotiated compression options
verifyServerResponse(o, c, chal, response) ==
    IF response.StatusCode # StatusSwitchingProtocols
    THEN [err |-> "status", copts |-> NilCopts]
    ELSE IF VerifyConnection(response.Connection) # "ok"
    THEN [err |-> "connection", copts |-> NilCopts]
    ELSE IF VerifyServerUpgrade(response.Upgrade) # "ok"
    THEN [err |-> "upgrade", copts |-> NilCopts]
    ELSE IF VerifyAccept(response.Accept, chal) # "ok"
    THEN [err |-> "accept", copts |-> NilCopts]
    ELSE IF ~verifySubprotocol(o.Subprotocols, response)
    THEN [err |-> "subprotocol", copts |-> NilCopts]
    ELSE verifyServerExtensions(c, response.Extensions)

\* the bytes of the body dial reads for the error, part_001 line 101
DiagnosticLimit == 1024

\* the sizes of the buffers ioutil.ReadAll reads into
ReadSizes == {512, 4096}

\* the six headers of the handshake, all absent
NoFields ==
    [Connection |-> Absent, Upgrade |-> Absent, Version |-> Absent,
     Key |-> Absent, Protocol |-> Absent, Extensions |-> Absent]

\* a nil http.Header and the http.Header with the entries h
NilHeaderMap == [nil |-> TRUE, h |-> NoFields]

HeaderMap(h) == [nil |-> FALSE, h |-> h]

\* a nil *http.Client and a client with the given Timeout
NilClient == [nil |-> TRUE, Timeout |-> 0]

Client(timeout) == [nil |-> FALSE, Timeout |-> timeout]

\* http.DefaultClient
DefaultClient == Client(0)

\* &DialOptions{}
ZeroOptions ==
    [HTTPClient |-> NilClient, HTTPHeader |-> NilHeaderMap,
     Subprotocols |-> <<>>, CompressionMode |-> "CompressionDisabled"]

\* dial, part_001 lines 75-80: the defaults of the options
withDefaults(o) ==
    [o EXCEPT !.HTTPClient = IF @.nil THEN DefaultClient ELSE @,
              !.HTTPHeader = IF @.nil THEN HeaderMap(NoFields) ELSE @]

NoRequest ==
    [sent |-> FALSE, Method |-> <<>>, Scheme |-> <<>>, Host |-> <<>>,
     Connection |-> Absent, Upgrade |-> Absent, Version |-> Absent,
     Key |-> Absent, Protocol |-> Absent, Extensions |-> Absent]

NoResponse ==
    [received |-> FALSE, StatusCode |-> 0, Connection |-> Absent,
     Upgrade |-> Absent, Accept |-> Absent, Protocol |-> Absent,
     Extensions |-> Absent, rwc |-> FALSE]

\* wsheaders.SetChallenge
SetChallenge(h, chal) == [h EXCEPT !.Key = One(B64Encode(chal))]

\* a variant of httpScheme: the scheme of the url is kept
httpSchemeKept(scheme) == scheme

\* handshakeRequest, part_001 lines 145-153: the scheme of the request for
\* a url of one of the four schemes
httpScheme(scheme) ==
    IF scheme = sWs THEN sHttp
    ELSE IF scheme = sWss THEN sHttps
    ELSE scheme

\* the request handshakeRequest builds for the parsed url u
handshakeRequestFor(u, o, c, chal) ==
    LET base == [NoRequest EXCEPT
                    !.sent = TRUE, !.Method = sGET, !.Host = u.Host,
                    !.Connection = o.HTTPHeader.h.Connection,
                    !.Upgrade = o.HTTPHeader.h.Upgrade,
                    !.Version = o.HTTPHeader.h.Version,
                    !.Key = o.HTTPHeader.h.Key,
                    !.Protocol = o.HTTPHeader.h.Protocol,
                    !.Extensions = o.HTTPHeader.h.Extensions,
                    !.Scheme = httpScheme(u.Scheme)]
        h == SetChallenge(SetVersion(SetUpgrade(SetConnection(base))), chal)
        hp == IF Len(o.Subprotocols) > 0
              THEN [h EXCEPT !.Protocol = One(Join(o.Subprotocols, <<",">>))]
              ELSE h
    IN
    IF ~c.nil THEN [hp EXCEPT !.Extensions = One(coptsString(c))] ELSE hp

\* the accept value the peer answers to the key text it received
peerAccept(kind, key) ==
    IF kind = "hash" THEN One(Sha1SaltB64(key))
    ELSE IF kind = "absent" THEN Absent
    ELSE IF kind = "empty" THEN One(<<>>)
    ELSE IF kind = "twice" THEN Values(<<Sha1SaltB64(key), Sha1SaltB64(key)>>)
    ELSE IF kind = "padded" THEN One(<<" ">> \o Sha1SaltB64(key) \o <<" ", "\t">>)
    ELSE IF kind = "lower" THEN One(ToLower(Sha1SaltB64(key)))
    ELSE IF kind = "key" THEN One(key)
    ELSE One(Sha1SaltB64(key \o <<"=">>))

\* the response of the peer to the request q
peerResponse(p, q) ==
    [received |-> TRUE, StatusCode |-> p.StatusCode, Connection |-> p.Connection,
     Upgrade |-> p.Upgrade, Accept |-> peerAccept(p.Accept, Get(q.Key)),
     Protocol |-> p.Protocol, Extensions |-> p.Extensions, rwc |-> p.Rwc]

\* what dial returns: the connection, the error, what the connection was
\* made with, and the Body of the response it returns (nil, or a reader
\* over that many of the first bytes of the body)
NoDialRet ==
    [conn |-> FALSE, err |-> "none", subprotocol |-> <<>>, copts |-> NilCopts,
     body |-> [nil |-> TRUE, bytes |-> 0]]

\* a body of len bytes that was not read yet; after these bytes the stream
\* ends, or stalls without ending
Body(len, stalls) == [len |-> len, stalls |-> stalls, read |-> 0, closed |-> FALSE]

\* a variant of limited: the body is read without a limit
unlimited(b, n) == n

\* the bytes io.LimitReader(respBody, 1024) lets a Read of n bytes ask for
limited(b, n) ==
    IF n > DiagnosticLimit - b.read THEN DiagnosticLimit - b.read ELSE n

\* the bytes a Read of n bytes through the limited reader returns now
readNow(b, n) ==
    IF limited(b, n) > b.len - b.read THEN b.len - b.read ELSE limited(b, n)

\* a variant of readEnds: closing the body does not end a read
readEndsUnclosed(b) ==
    \/ limited(b, 1) <= 0
    \/ b.read = b.len /\ ~b.stalls

\* ioutil.ReadAll(r) returns: the limit is reached, the body has reached its
\* end, or the read fails because the body was closed
readEnds(b) ==
    \/ limited(b, 1) <= 0
    \/ b.read = b.len /\ ~b.stalls
    \/ b.closed

\* dial, part_001 lines 70-80: opts = &*opts is the pointer it was, so the
\* defaults are written to the DialOptions of the caller
ApplyDefaults ==
    /\ dialPc = "defaults"
    /\ dialOpts' = withDefaults(dialOpts)
    /\ callerOpts' = IF callerOpts.nil THEN callerOpts
                     ELSE [callerOpts EXCEPT !.v = withDefaults(dialOpts)]
    /\ dialPc' = "challenge"
    /\ UNCHANGED <<urls, rand, peer, dialChallenge, dialCopts, dialReq, resp,
                   dialRet, respBody, timer>>
    /\ UNCHANGED <<acceptVars, connVars, poolVars, callVars>>

\* generateChallenge as it would be if it filled up with zeros what the
\* source does not yield
GenerateChallengePadded ==
    /\ dialPc = "challenge"
    /\ dialChallenge' =
          [i \in 1..ChallengeLen |-> IF i <= Len(rand) THEN rand[i] ELSE 0]
    /\ dialCopts' = IF dialOpts.CompressionMode # "CompressionDisabled"
                    THEN modeOpts(dialOpts.CompressionMode) ELSE NilCopts
    /\ dialPc' = "request"
    /\ UNCHANGED dialRet
    /\ UNCHANGED <<urls, dialOpts, rand, peer, dialReq, resp>>
    /\ UNCHANGED <<callerOpts, respBody, timer>>
    /\ UNCHANGED <<acceptVars, connVars, poolVars, callVars>>

\* dial, part_001 lines 82-90, and generateChallenge
GenerateChallenge ==
    /\ dialPc = "challenge"
    /\ IF Len(rand) < ChallengeLen
       THEN /\ dialRet' = [dialRet EXCEPT !.err = "rand"]
            /\ dialPc' = "done"
            /\ UNCHANGED <<dialChallenge, dialCopts>>
       ELSE /\ dialChallenge' = SubSeq(rand, 1, ChallengeLen)
            /\ dialCopts' = IF dialOpts.CompressionMode # "CompressionDisabled"
                            THEN modeOpts(dialOpts.CompressionMode) ELSE NilCopts
            /\ dialPc' = "request"
            /\ UNCHANGED dialRet
    /\ UNCHANGED <<urls, dialOpts, rand, peer, dialReq, resp>>
    /\ UNCHANGED <<callerOpts, respBody, timer>>
    /\ UNCHANGED <<acceptVars, connVars, poolVars, callVars>>

\* dial, part_001 lines 92-97, and handshakeRequest
HandshakeRequest ==
    /\ dialPc = "request"
    /\ IF dialOpts.HTTPClient.Timeout > 0
       THEN /\ dialRet' = [dialRet EXCEPT !.err = "timeout"]
            /\ dialPc' = "done"
            /\ UNCHANGED <<dialReq, resp>>
       ELSE IF urlParse(urls).err
       THEN /\ dialRet' = [dialRet EXCEPT !.err = "url"]
            /\ dialPc' = "done"
            /\ UNCHANGED <<dialReq, resp>>
       ELSE IF urlParse(urls).Scheme \notin {sWs, sWss, sHttp, sHttps}
       THEN /\ dialRet' = [dialRet EXCEPT !.err = "scheme"]
            /\ dialPc' = "done"
            /\ UNCHANGED <<dialReq, resp>>
       ELSE /\ dialReq' = handshakeRequestFor(urlParse(urls), dialOpts, dialCopts, dialChallenge)
            /\ IF peer.Fails
               THEN /\ dialRet' = [dialRet EXCEPT !.err = "send"]
                    /\ dialPc' = "done"
                    /\ UNCHANGED resp
               ELSE /\ resp' = peerResponse(peer, dialReq')
                    /\ dialPc' = "verify"
                    /\ UNCHANGED dialRet
    /\ UNCHANGED <<urls, dialOpts, rand, peer, dialChallenge, dialCopts>>
    /\ UNCHANGED <<callerOpts, respBody, timer>>
    /\ UNCHANGED <<acceptVars, connVars, poolVars, callVars>>

\* dial, part_001 lines 114-117: with an error the deferred function runs
VerifyServerResponse ==
    /\ dialPc = "verify"
    /\ dialCopts' = verifyServerResponse(dialOpts, dialCopts, dialChallenge, resp).copts
    /\ IF verifyServerResponse(dialOpts, dialCopts, dialChallenge, resp).err # "none"
       THEN /\ dialRet' = [dialRet EXCEPT !.err =
                   verifyServerResponse(dialOpts, dialCopts, dialChallenge, resp).err]
            /\ dialPc' = "deferred"
       ELSE /\ dialPc' = "body"
            /\ UNCHANGED dialRet
    /\ UNCHANGED <<urls, dialOpts, rand, peer, dialChallenge, dialReq, resp>>
    /\ UNCHANGED <<callerOpts, respBody, timer>>
    /\ UNCHANGED <<acceptVars, connVars, poolVars, callVars>>

\* the number of client connections
MaxConns == 3

Conns == 1..MaxConns

\* a buffer that was not made yet
NoBuffer == [made |-> FALSE, rd |-> 0]

\* a connection that was not dialed yet
NoConn == [state |-> "idle", br |-> 0, bw |-> 0]

\* the buffer bufio.NewReader or bufio.NewWriter makes: the first that was
\* not made yet
fresh(bufs) ==
    CHOOSE i \in DOMAIN bufs : ~bufs[i].made /\ \A j \in 1..(i - 1) : bufs[j].made

\* what sync.Pool.Get gives: a buffer of the pool, or nothing (0)
poolGet(pool) == pool \cup {0}

\* the buffer a connection gets when the pool gives x
bufferFor(bufs, x) == IF x = 0 THEN fresh(bufs) ELSE x

\* a variant of getBufioReader: a reader of the pool is not reset
getBufioReaderStale(brs, x, rd) ==
    IF x = 0 THEN [brs EXCEPT ![fresh(brs)] = [made |-> TRUE, rd |-> rd]]
    ELSE brs

\* getBufioReader(r), part_001 lines 261-268, when the pool gives x: the
\* readers there are afterwards
getBufioReader(brs, x, rd) ==
    IF x = 0 THEN [brs EXCEPT ![fresh(brs)] = [made |-> TRUE, rd |-> rd]]
    ELSE [brs EXCEPT ![x].rd = rd]

\* getBufioWriter(w), part_001 lines 276-283, when the pool gives x: the
\* writers there are afterwards
getBufioWriter(bws, x, wr) ==
    IF x = 0 THEN [bws EXCEPT ![fresh(bws)] = [made |-> TRUE, rd |-> wr]]
    ELSE [bws EXCEPT ![x].rd = wr]

\* putBufioReader and putBufioWriter, part_001 lines 270-272 and 285-287
poolPut(pool, x) == pool \cup {x}

\* dial, part_001 line 130, for the connection c when the pool gives x
TakeReader(c, x) ==
    /\ readers' = getBufioReader(readers, x, c)
    /\ bufioReaderPool' = bufioReaderPool \ {x}

\* dial, part_001 line 131, for the connection c when the pool gives y
TakeWriter(c, y) ==
    /\ writers' = getBufioWriter(writers, y, c)
    /\ bufioWriterPool' = bufioWriterPool \ {y}

\* a dial of the connection c gets its reader
DialGetReader ==
    \E c \in Conns, x \in poolGet(bufioReaderPool) :
        /\ conns[c].state = "idle"
        /\ TakeReader(c, x)
        /\ conns' = [conns EXCEPT ![c].state = "reader",
                                  ![c].br = bufferFor(readers, x)]
        /\ UNCHANGED <<writers, bufioWriterPool>>
        /\ UNCHANGED <<acceptVars, dialVars, connVars, callVars>>

\* a dial of the connection c gets its writer and returns the connection
DialGetWriter ==
    \E c \in Conns, y \in poolGet(bufioWriterPool) :
        /\ conns[c].state = "reader"
        /\ TakeWriter(c, y)
        /\ conns' = [conns EXCEPT ![c].state = "open",
                                  ![c].bw = bufferFor(writers, y)]
        /\ UNCHANGED <<readers, bufioReaderPool>>
        /\ UNCHANGED <<acceptVars, dialVars, connVars, callVars>>

\* the connection c is done with its buffers and returns them
ConnRelease ==
    \E c \in Conns :
        /\ conns[c].state = "open"
        /\ bufioReaderPool' = poolPut(bufioReaderPool, conns[c].br)
        /\ bufioWriterPool' = poolPut(bufioWriterPool, conns[c].bw)
        /\ conns' = [conns EXCEPT ![c].state = "closed"]
        /\ UNCHANGED <<readers, writers>>
        /\ UNCHANGED <<acceptVars, dialVars, connVars, callVars>>

\* a variant of NewClientConn: the connection is made from any body
NewClientConnAnyBody ==
    /\ dialPc = "body"
    /\ dialRet' = [dialRet EXCEPT !.conn = TRUE, !.err = "none",
                                  !.subprotocol = Get(resp.Protocol),
                                  !.copts = dialCopts]
    /\ \E x \in poolGet(bufioReaderPool), y \in poolGet(bufioWriterPool) :
          /\ TakeReader(1, x)
          /\ TakeWriter(1, y)
          /\ conns' = [conns EXCEPT ![1] = [state |-> "open",
                                            br |-> bufferFor(readers, x),
                                            bw |-> bufferFor(writers, y)]]
    /\ dialPc' = "done"
    /\ UNCHANGED <<urls, dialOpts, rand, peer, dialChallenge, dialCopts, dialReq, resp>>
    /\ UNCHANGED <<callerOpts, respBody, timer>>
    /\ UNCHANGED <<acceptVars, connVars, callVars>>

\* dial, part_001 lines 119-132: with an error the deferred function runs,
\* without one it finds err nil and leaves the body to the connection
NewClientConn ==
    /\ dialPc = "body"
    /\ IF ~resp.rwc
       THEN /\ dialRet' = [dialRet EXCEPT !.err = "body"]
            /\ dialPc' = "deferred"
            /\ UNCHANGED poolVars
       ELSE /\ dialRet' = [dialRet EXCEPT !.conn = TRUE, !.err = "none",
                                          !.subprotocol = Get(resp.Protocol),
                                          !.copts = dialCopts]
            /\ \E x \in poolGet(bufioReaderPool), y \in poolGet(bufioWriterPool) :
                  /\ TakeReader(1, x)
                  /\ TakeWriter(1, y)
                  /\ conns' = [conns EXCEPT ![1] = [state |-> "open",
                                                    br |-> bufferFor(readers, x),
                                                    bw |-> bufferFor(writers, y)]]
            /\ dialPc' = "done"
    /\ UNCHANGED <<urls, dialOpts, rand, peer, dialChallenge, dialCopts, dialReq, resp>>
    /\ UNCHANGED <<callerOpts, respBody, timer>>
    /\ UNCHANGED <<acceptVars, connVars, callVars>>

\* the deferred function of dial, part_001 lines 99-106: the timer is started
StartTimer ==
    /\ dialPc = "deferred"
    /\ timer' = "armed"
    /\ dialPc' = "read"
    /\ UNCHANGED <<urls, dialOpts, rand, peer, dialChallenge, dialCopts, dialReq,
                   resp, dialRet, callerOpts, respBody>>
    /\ UNCHANGED <<acceptVars, connVars, poolVars, callVars>>

\* one Read of ioutil.ReadAll(r), part_001 line 108, that returns bytes
ReadSome ==
    /\ dialPc = "read"
    /\ ~respBody.closed
    /\ \E n \in ReadSizes :
          /\ readNow(respBody, n) > 0
          /\ respBody' = [respBody EXCEPT !.read = @ + readNow(respBody, n)]
    /\ UNCHANGED <<urls, dialOpts, rand, peer, dialPc, dialChallenge, dialCopts,
                   dialReq, resp, dialRet, callerOpts, timer>>
    /\ UNCHANGED <<acceptVars, connVars, poolVars, callVars>>

\* the function of the timer, part_001 lines 103-105, three seconds after it
\* was started unless it was stopped: the body is closed
TimerFires ==
    /\ timer = "armed"
    /\ respBody' = [respBody EXCEPT !.closed = TRUE]
    /\ timer' = "fired"
    /\ UNCHANGED <<urls, dialOpts, rand, peer, dialPc, dialChallenge, dialCopts,
                   dialReq, resp, dialRet, callerOpts>>
    /\ UNCHANGED <<acceptVars, connVars, poolVars, callVars>>

\* ioutil.ReadAll(r) returns, part_001 lines 108-111: the body is closed,
\* what was read becomes the Body of the response, the timer is stopped
ReadReturns ==
    /\ dialPc = "read"
    /\ readEnds(respBody)
    /\ respBody' = [respBody EXCEPT !.closed = TRUE]
    /\ dialRet' = [dialRet EXCEPT !.body = [nil |-> FALSE, bytes |-> respBody.read]]
    /\ timer' = IF timer = "armed" THEN "stopped" ELSE timer
    /\ dialPc' = "done"
    /\ UNCHANGED <<urls, dialOpts, rand, peer, dialChallenge, dialCopts, dialReq,
                   resp, callerOpts>>
    /\ UNCHANGED <<acceptVars, connVars, poolVars, callVars>>

(***************************************************************************)
(* The handshakes Accept is called with                                    *)
(*                                                                         *)
(* A call is a request, the options and the writer.  The requests come     *)
(* from net/http, so a header that is present has at least one value.      *)
(***************************************************************************)
\* the number of fields in which a call differs from the plain handshake
MaxDeviations == 2

\* the number of values of a Connection or Upgrade header
MaxValues == 2

\* the number of extensions offered in Sec-WebSocket-Extensions
MaxOffers == 2

\* the plain handshake of a same-origin client, accepted without options
PlainCall ==
    [Proto |-> <<1, 1>>, Method |-> sGET,
     Connection |-> One(sUpgrade), Upgrade |-> One(sWebsocketLower),
     Version |-> One(s13), Key |-> One(sSampleKey),
     Origin |-> Absent, Host |-> sHostExample,
     Protocol |-> Absent, Extensions |-> Absent,
     InsecureSkipVerify |-> FALSE, OriginPatterns |-> <<>>,
     Subprotocols |-> <<>>, CompressionMode |-> "CompressionDisabled",
     Hijacker |-> TRUE]

Param(name, value) == [Name |-> name, Value |-> value]

Offer(name, params) == [Name |-> name, Params |-> params]

\* the extensions clients offer
OfferPool ==
    {Offer(sPermessageDeflate, <<>>),
     Offer(sPermessageDeflate, <<Param(sClientMaxWindowBits, <<>>)>>),
     Offer(sPermessageDeflate, <<Param(sServerNoContextTakeover, <<>>),
                                 Param(sClientNoContextTakeover, <<>>)>>),
     Offer(sPermessageDeflate, <<Param(sServerMaxWindowBits, s10)>>),
     Offer(sPermessageDeflate, <<Param(sClientMaxWindowBits, s7)>>),
     Offer(sPermessageDeflate, <<Param(sMeow, <<>>)>>),
     Offer(sPermessageDeflate, <<Param(sClientMaxWindowBits, <<>>),
                                 Param(sClientMaxWindowBits, s15)>>),
     Offer(sPermessageDeflateCase, <<>>),
     Offer(sDeflateFrame, <<>>)}

\* the sequences over S of length 1..n
SeqsUpTo(S, n) == UNION {[1..k -> S] : k \in 1..n}

\* the values each field takes besides that of the plain handshake
Deviations ==
    [Proto |-> {<<1, 0>>, <<2, 0>>},
     Method |-> {sPOST},
     Connection |-> {Absent, One(sKeepAliveUpgrade), One(sNotUpgrade),
                     Values(<<sClose, sBarBaz, sUpgradeLower>>),
                     Values(<<sBarBaz, sClose>>)},
     Upgrade |-> {Absent, One(sWebSocket), One(sAbc),
                  Values(<<sBarBaz, sWebsocketLower>>)},
     Version |-> {Absent, One(s14), One(s256), One(sAbc), One(<<>>),
                  Values(<<s13, s13>>)},
     Key |-> {Absent, One(<<>>), One(sSampleKeyBits), One(sShortKey),
              One(sShortKeyBits), One(sNotBase64),
              Values(<<sSampleKey, sSampleKey>>)},
     Origin |-> {One(<<>>), One(sOriginExample), One(sOriginExampleCase),
                 One(sOriginTwo), One(sOriginNoScheme), One(sOriginBad)},
     Host |-> {<<>>},
     Protocol |-> {One(sFoo)},
     Extensions |-> {One(ExtensionsString(<<o>>)) : o \in OfferPool},
     InsecureSkipVerify |-> {TRUE},
     OriginPatterns |-> {<<sPatStarExample, sPatBar>>, <<sPatExam3, sPatBar>>,
                         <<sPatBad, sPatStarExample>>, <<sPatStarExampleUpper>>},
     Subprotocols |-> {<<sBAR, sFOO>>},
     CompressionMode |-> {"CompressionNoContextTakeover", "CompressionContextTakeover"},
     Hijacker |-> {FALSE}]

\* the fields of a call, in the order they are varied
Fields ==
    <<"Proto", "Method", "Connection", "Upgrade", "Version", "Key", "Origin",
      "Host", "Protocol", "Extensions", "InsecureSkipVerify", "OriginPatterns",
      "Subprotocols", "CompressionMode", "Hijacker">>

RECURSIVE SetToSeq(_)
\* the elements of the set, in some order
SetToSeq(S) ==
    IF S = {} THEN <<>>
    ELSE LET v == CHOOSE e \in S : TRUE IN <<v>> \o SetToSeq(S \ {v})

\* for each field, in their order, the values it takes, in some order
Ordered(fields, deviations) ==
    [i \in 1..Len(fields) |-> SetToSeq(deviations[fields[i]])]

RECURSIVE DeviationChoices(_, _, _)
\* the ways to give other values to at most k of the fields from the i-th
\* on: sequences of pairs <<index of the field, index of the value>>, the
\* i-th field taking the values values[i]
DeviationChoices(values, i, k) ==
    IF k = 0 \/ i > Len(values) THEN {<<>>}
    ELSE DeviationChoices(values, i + 1, k)
         \cup {<<<<i, j>>>> \o c :
                 j \in 1..Len(values[i]),
                 c \in DeviationChoices(values, i + 1, k - 1)}

RECURSIVE Deviate(_, _, _, _, _)
\* x with the values of the choice c from its j-th pair on
Deviate(x, fields, values, c, j) ==
    IF j > Len(c) THEN x
    ELSE Deviate([x EXCEPT ![fields[c[j][1]]] = values[c[j][1]][c[j][2]]],
                 fields, values, c, j + 1)

\* the records that differ from x in at most k of the fields
DeviatingFrom(x, fields, deviations, k) ==
    LET values == Ordered(fields, deviations) IN
    {Deviate(x, fields, values, c, 1) : c \in DeviationChoices(values, 1, k)}

\* the calls that differ from the plain handshake in at most k fields
Deviating(k) == DeviatingFrom(PlainCall, Fields, Deviations, k)

\* every combination of passing and failing the six checks of the request
VerificationCalls ==
    {[PlainCall EXCEPT !.Proto = p, !.Connection = c, !.Upgrade = u,
                       !.Method = m, !.Version = v, !.Key = k] :
        p \in {<<1, 1>>, <<1, 0>>},
        c \in {One(sUpgrade), One(sNotUpgrade)},
        u \in {One(sWebsocketLower), One(sAbc)},
        m \in {sGET, sPOST},
        v \in {One(s13), One(s14)},
        k \in {One(sSampleKey), One(sNotBase64)}}

\* Connection and Upgrade headers of several values
ValueListCalls ==
    {[PlainCall EXCEPT !.Connection = Values(vs)] :
        vs \in SeqsUpTo({sUpgrade, sKeepAliveUpgrade, sBarBaz, sClose}, MaxValues)}
    \cup
    {[PlainCall EXCEPT !.Upgrade = Values(vs)] :
        vs \in SeqsUpTo({sWebSocket, sBarBaz, sAbc}, MaxValues)}

\* several offers in one Sec-WebSocket-Extensions value, under each mode
OfferCalls ==
    {[PlainCall EXCEPT !.Extensions = One(ExtensionsString(os)),
                       !.CompressionMode = m] :
        os \in SeqsUpTo(OfferPool, MaxOffers), m \in CompressionModes}

\* the parameters of the offers of ParamCalls
ParamPool ==
    {Param(sClientNoContextTakeover, <<>>), Param(sServerNoContextTakeover, <<>>),
     Param(sClientNoContextTakeover, s15), Param(sServerNoContextTakeover, s8),
     Param(sClientMaxWindowBits, <<>>), Param(sClientMaxWindowBits, s7),
     Param(sClientMaxWindowBits, s8), Param(sClientMaxWindowBits, s15),
     Param(sClientMaxWindowBits, s16), Param(sServerMaxWindowBits, <<>>),
     Param(sServerMaxWindowBits, s8), Param(sServerMaxWindowBits, s15),
     Param(sServerMaxWindowBits, s16), Param(sMeow, <<>>)}

\* one permessage-deflate offer of one parameter or of a pair of
\* parameters, under the modes that compress
ParamCalls ==
    {[PlainCall EXCEPT
         !.Extensions = One(ExtensionsString(<<Offer(sPermessageDeflate, ps)>>)),
         !.CompressionMode = m] :
        ps \in {<<p>> : p \in ParamPool} \cup {<<p, q>> : p, q \in ParamPool},
        m \in {"CompressionNoContextTakeover", "CompressionContextTakeover"}}

\* an offer with client_no_context_takeover and a further parameter, and
\* an offer after it
TraceCalls ==
    {[PlainCall EXCEPT
         !.Extensions = One(ExtensionsString(
             <<Offer(sPermessageDeflate, <<Param(sClientNoContextTakeover, <<>>), p>>),
               Offer(sPermessageDeflate, qs)>>)),
         !.CompressionMode = m] :
        p \in ParamPool,
        qs \in {<<>>, <<Param(sServerNoContextTakeover, <<>>)>>},
        m \in {"CompressionNoContextTakeover", "CompressionContextTakeover"}}

\* no extension: a separator where a name has to be
sNoToken == <<"@">>

\* an offer and then no extension
sDeflateThenNoToken == <<"p","e","r","m","e","s","s","a","g","e","-","d","e","f","l","a","t","e",","," ","@">>

\* an offer whose list of parameters ends with no parameter
sDeflateNoParam == <<"p","e","r","m","e","s","s","a","g","e","-","d","e","f","l","a","t","e",";">>

\* Sec-WebSocket-Extensions headers that do not parse, with an offer before
\* what does not parse, in the same value or in another one, or after it
MalformedCalls ==
    {[PlainCall EXCEPT !.Extensions = e, !.CompressionMode = m] :
        e \in {One(sNoToken), One(sDeflateThenNoToken), One(sDeflateNoParam),
               Values(<<sPermessageDeflate, sNoToken>>),
               Values(<<sNoToken, sPermessageDeflate>>)},
        m \in {"CompressionNoContextTakeover", "CompressionContextTakeover"}}

\* subprotocols offered by the client against those the server supports
ProtocolCalls ==
    {[PlainCall EXCEPT !.Protocol = p, !.Subprotocols = sp] :
        p \in {Absent, One(sFoo), One(sFooBar), One(sFooSpaceBar), One(sMeow),
               Values(<<sMeow, sBar>>), Values(<<sFooSpaceBar, sFoo>>)},
        sp \in {<<>>, <<sBAR, sFOO>>, <<sFOO, sBAR>>, <<sMeow, sFoo>>}}

\* other ways to write a version
VersionCalls ==
    {[PlainCall EXCEPT !.Version = v] :
        v \in {One(s13Padded), One(s13Plus), One(s013), One(sMinus1), One(s0),
               One(s255), Values(<<s13, s14>>)}}

\* the calls that vary fields together, next to the deviating ones
Calls ==
    VerificationCalls \cup ValueListCalls \cup OfferCalls \cup ProtocolCalls
    \cup VersionCalls \cup ParamCalls \cup TraceCalls \cup MalformedCalls

Request(x) ==
    [Proto |-> x.Proto, Method |-> x.Method, Connection |-> x.Connection,
     Upgrade |-> x.Upgrade, Version |-> x.Version, Key |-> x.Key,
     Origin |-> x.Origin, Host |-> x.Host, Protocol |-> x.Protocol,
     Extensions |-> x.Extensions]

AcceptOptions(x) ==
    [InsecureSkipVerify |-> x.InsecureSkipVerify,
     OriginPatterns |-> x.OriginPatterns,
     Subprotocols |-> x.Subprotocols,
     CompressionMode |-> x.CompressionMode]

ResponseWriter(x) ==
    [hijacker |-> x.Hijacker, header |-> NoHeader, codes |-> <<>>,
     body |-> "", hijacked |-> FALSE]

(***************************************************************************)
(* The exchanges Dial goes through: its arguments, the bytes of the        *)
(* randomness source and the peer.  The responses come from net/http, so   *)
(* a header that is present has at least one value.                        *)
(***************************************************************************)
sUrlWs == <<"w","s",":","/","/","e","x","a","m","p","l","e",".","c","o","m">>

sUrlWss == <<"w","s","s",":","/","/","e","x","a","m","p","l","e",".","c","o","m">>

sUrlHttp == <<"h","t","t","p",":","/","/","e","x","a","m","p","l","e",".","c","o","m">>

sUrlFtp == <<"f","t","p",":","/","/","e","x","a","m","p","l","e",".","c","o","m">>

sQuestionMarks == <<"?","?","?">>

sWebsocketFoo == <<"w","e","b","s","o","c","k","e","t",","," ","f","o","o">>

sDeflateClientNoContext == <<"p","e","r","m","e","s","s","a","g","e","-","d","e","f","l","a","t","e",";"," ","c","l","i","e","n","t","_","n","o","_","c","o","n","t","e","x","t","_","t","a","k","e","o","v","e","r">>

sDeflateServerBits7 == <<"p","e","r","m","e","s","s","a","g","e","-","d","e","f","l","a","t","e",";"," ","s","e","r","v","e","r","_","m","a","x","_","w","i","n","d","o","w","_","b","i","t","s","=","7">>

\* two extensions in one value
sDeflateTwice == <<"p","e","r","m","e","s","s","a","g","e","-","d","e","f","l","a","t","e",","," ","p","e","r","m","e","s","s","a","g","e","-","d","e","f","l","a","t","e">>

\* a parameter the client does not know
sDeflateMeow == <<"p","e","r","m","e","s","s","a","g","e","-","d","e","f","l","a","t","e",";"," ","m","e","o","w">>

\* a flag with a value
sDeflateClientValued == <<"p","e","r","m","e","s","s","a","g","e","-","d","e","f","l","a","t","e",";"," ","c","l","i","e","n","t","_","n","o","_","c","o","n","t","e","x","t","_","t","a","k","e","o","v","e","r","=","1">>

\* window bits out of 8-15, and a flag
sDeflateBits16Server == <<"p","e","r","m","e","s","s","a","g","e","-","d","e","f","l","a","t","e",";"," ","s","e","r","v","e","r","_","m","a","x","_","w","i","n","d","o","w","_","b","i","t","s","=","1","6",";"," ","s","e","r","v","e","r","_","n","o","_","c","o","n","t","e","x","t","_","t","a","k","e","o","v","e","r">>

\* window bits that are no number
sDeflateBitsAbc == <<"p","e","r","m","e","s","s","a","g","e","-","d","e","f","l","a","t","e",";"," ","s","e","r","v","e","r","_","m","a","x","_","w","i","n","d","o","w","_","b","i","t","s","=","a","b","c">>

\* other letter case
sDeflateUpper == <<"P","e","r","m","e","s","s","a","g","e","-","D","e","f","l","a","t","e",";"," ","S","e","r","v","e","r","_","N","o","_","C","o","n","t","e","x","t","_","T","a","k","e","o","v","e","r">>

\* the sixteen bytes of "the sample nonce" and of "0123456789abcdef"
SampleNonce == B64Decode(sSampleKey).bytes

SecondNonce == B64Decode(sSecondKey).bytes

\* the plain exchange: a dial without options answered by a plain server
PlainExchange ==
    [Timeout |-> 0, Url |-> sUrlWs, Subprotocols |-> <<>>,
     CompressionMode |-> "CompressionDisabled", Rand |-> SampleNonce,
     Fails |-> FALSE, StatusCode |-> StatusSwitchingProtocols,
     Connection |-> One(sUpgrade), Upgrade |-> One(sWebsocketLower),
     Accept |-> "hash", Protocol |-> Absent, Extensions |-> Absent,
     Rwc |-> TRUE, OptsNil |-> FALSE, ClientNil |-> FALSE,
     HTTPHeader |-> HeaderMap(NoFields), BodyLen |-> 0, BodyStalls |-> FALSE]

ExchangeFields ==
    <<"Timeout", "Url", "Subprotocols", "CompressionMode", "Rand", "Fails",
      "StatusCode", "Connection", "Upgrade", "Accept", "Protocol",
      "Extensions", "Rwc">>

ExchangeDeviations ==
    [Timeout |-> {1},
     Url |-> {sUrlWss, sUrlHttp, sOriginExample, sUrlFtp, sOriginBad},
     Subprotocols |-> {<<sBAR, sFOO>>},
     CompressionMode |-> {"CompressionNoContextTakeover", "CompressionContextTakeover"},
     Rand |-> {SecondNonce, SubSeq(SampleNonce, 1, 3)},
     Fails |-> {TRUE},
     StatusCode |-> {StatusBadRequest, StatusForbidden},
     Connection |-> {Absent, One(sKeepAliveUpgrade), One(sUpgradeLower),
                     One(sNotUpgrade), One(sQuestionMarks),
                     Values(<<sUpgrade, sClose>>)},
     Upgrade |-> {Absent, One(sWebSocket), One(sAbc), One(sWebsocketFoo),
                  Values(<<sWebsocketLower, sWebsocketLower>>)},
     Accept |-> {"absent", "empty", "twice", "padded", "lower", "key", "other"},
     Protocol |-> {One(sFoo), One(sMeow)},
     Extensions |-> {One(sPermessageDeflate), One(sDeflateClientNoContext),
                     One(sDeflateServerBits7), One(sMeow), One(<<>>),
                     One(sDeflateTwice), One(sDeflateMeow),
                     One(sDeflateClientValued), One(sDeflateBits16Server),
                     One(sDeflateBitsAbc), One(sDeflateUpper),
                     Values(<<sPermessageDeflate, sDeflateClientNoContext>>)},
     Rwc |-> {FALSE}]

\* Connection and Upgrade headers of several values in the response
ValueListExchanges ==
    {[PlainExchange EXCEPT !.Connection = Values(vs)] :
        vs \in SeqsUpTo({sUpgrade, sKeepAliveUpgrade, sBarBaz, sClose}, MaxValues)}
    \cup
    {[PlainExchange EXCEPT !.Upgrade = Values(vs)] :
        vs \in SeqsUpTo({sWebSocket, sWebsocketFoo, sBarBaz, <<>>}, MaxValues)}

\* subprotocols answered by the server against those the client offered
ProtocolExchanges ==
    {[PlainExchange EXCEPT !.Protocol = p, !.Subprotocols = sp] :
        p \in {Absent, One(<<>>), One(sFoo), One(sFOO), One(sFooBar), One(sMeow),
               Values(<<sFoo, sBar>>), Values(<<sMeow, sFoo>>)},
        sp \in {<<>>, <<sBAR, sFOO>>, <<sFoo>>}}

\* the options the caller passes: none, or some without a client or
\* without headers, or with headers of its own
OptionsExchanges ==
    {[PlainExchange EXCEPT !.OptsNil = n, !.ClientNil = c, !.HTTPHeader = h,
                           !.Subprotocols = sp] :
        n \in BOOLEAN, c \in BOOLEAN,
        h \in {NilHeaderMap, HeaderMap(NoFields),
               HeaderMap([NoFields EXCEPT !.Connection = One(sClose),
                                          !.Protocol = One(sMeow)]),
               HeaderMap([NoFields EXCEPT !.Key = One(sSecondKey),
                                          !.Version = One(s14),
                                          !.Upgrade = One(sAbc),
                                          !.Extensions = One(sPermessageDeflate)])},
        sp \in {<<>>, <<sFoo>>}}

\* responses dial refuses, with bodies shorter and longer than what it
\* reads of them, ending or stalling
BodyExchanges ==
    {[PlainExchange EXCEPT !.StatusCode = c, !.Rwc = rwc, !.BodyLen = n,
                           !.BodyStalls = st] :
        c \in {StatusSwitchingProtocols, StatusBadRequest},
        rwc \in BOOLEAN,
        n \in {0, 3, 1000, DiagnosticLimit, DiagnosticLimit + 1, 2000},
        st \in BOOLEAN}

\* the exchanges that differ from the plain one in at most k fields
DeviatingExchanges(k) ==
    DeviatingFrom(PlainExchange, ExchangeFields, ExchangeDeviations, k)

\* a parameter given two times
sDeflateClientTwice == <<"p","e","r","m","e","s","s","a","g","e","-","d","e","f","l","a","t","e",";"," ","c","l","i","e","n","t","_","n","o","_","c","o","n","t","e","x","t","_","t","a","k","e","o","v","e","r",";"," ","c","l","i","e","n","t","_","n","o","_","c","o","n","t","e","x","t","_","t","a","k","e","o","v","e","r">>

sDeflateServerTwice == <<"p","e","r","m","e","s","s","a","g","e","-","d","e","f","l","a","t","e",";"," ","s","e","r","v","e","r","_","n","o","_","c","o","n","t","e","x","t","_","t","a","k","e","o","v","e","r",";"," ","s","e","r","v","e","r","_","n","o","_","c","o","n","t","e","x","t","_","t","a","k","e","o","v","e","r">>

sDeflateBitsTwice == <<"p","e","r","m","e","s","s","a","g","e","-","d","e","f","l","a","t","e",";"," ","s","e","r","v","e","r","_","m","a","x","_","w","i","n","d","o","w","_","b","i","t","s","=","1","5",";"," ","s","e","r","v","e","r","_","m","a","x","_","w","i","n","d","o","w","_","b","i","t","s","=","1","5">>

\* responses whose permessage-deflate repeats a parameter or that list the
\* extension in two values of the header, to clients that offer compression
RepeatingExchanges ==
    {[PlainExchange EXCEPT !.CompressionMode = m, !.Extensions = e] :
        m \in {"CompressionNoContextTakeover", "CompressionContextTakeover"},
        e \in {One(sDeflateClientTwice), One(sDeflateServerTwice),
               One(sDeflateBitsTwice),
               Values(<<sDeflateClientNoContext, sPermessageDeflate>>),
               Values(<<sPermessageDeflate, sPermessageDeflate>>)}}

\* randomness sources that yield nothing, one byte too few and more than
\* the challenge takes
RandExchanges ==
    {[PlainExchange EXCEPT !.Rand = b] :
        b \in {<<>>, SubSeq(SampleNonce, 1, ChallengeLen - 1),
               SampleNonce \o <<0>>, SecondNonce \o SampleNonce}}

\* the exchanges that vary fields together, next to the deviating ones
Exchanges ==
    ValueListExchanges \cup ProtocolExchanges \cup OptionsExchanges
    \cup BodyExchanges \cup RepeatingExchanges \cup RandExchanges

\* the DialOptions the caller passes, the zero value standing for none
DialOptions(x) ==
    IF x.OptsNil THEN ZeroOptions
    ELSE [HTTPClient |-> IF x.ClientNil THEN NilClient ELSE Client(x.Timeout),
          HTTPHeader |-> x.HTTPHeader,
          Subprotocols |-> x.Subprotocols,
          CompressionMode |-> x.CompressionMode]

Peer(x) ==
    [Fails |-> x.Fails, StatusCode |-> x.StatusCode, Connection |-> x.Connection,
     Upgrade |-> x.Upgrade, Accept |-> x.Accept, Protocol |-> x.Protocol,
     Extensions |-> x.Extensions, Rwc |-> x.Rwc]

\* Accept is called with x
AcceptCalled(x) ==
    /\ r = Request(x)
    /\ opts = AcceptOptions(x)
    /\ w = ResponseWriter(x)
    /\ challenge = <<>>
    /\ subproto = NoProto
    /\ copts = NoDeflate
    /\ ret = NoRet

\* the bytes 1, 2, ... n the client sends after its request
StreamOf(n) == [i \in 1..n |-> i]

\* the http server has read the request with t.off bytes of its buffer and
\* t.buffered bytes of the t.len the client sends after it
Transports ==
    {t \in [off : 0..BufSize, buffered : 0..BufSize, len : 0..MaxStream] :
        t.off + t.buffered <= BufSize /\ t.buffered <= t.len}

\* a client that sends nothing after its request
PlainTransport == [off |-> 0, buffered |-> 0, len |-> 0]

\* the server reads the transport t
TransportIs(t) ==
    /\ stream = StreamOf(t.len)
    /\ netConn = Drop(StreamOf(t.len), t.buffered)
    /\ brwReader = [buf |-> [i \in 1..BufSize |->
                                IF i > t.off /\ i <= t.off + t.buffered
                                THEN i - t.off ELSE 0],
                    r |-> t.off, w |-> t.off + t.buffered, rd |-> "conn"]
    /\ peeked = NoPeek
    /\ connIn = <<>>

\* no function of the header packages is called on its own
NoArg == [type |-> "none", val |-> <<>>]

NoOut == [err |-> FALSE]

NothingCalled ==
    /\ arg = NoArg
    /\ fn = "none"
    /\ out = NoOut

\* no connection was dialed and the pools are empty
PoolsEmpty ==
    /\ readers = [i \in Conns |-> NoBuffer]
    /\ writers = [i \in Conns |-> NoBuffer]
    /\ bufioReaderPool = {}
    /\ bufioWriterPool = {}
    /\ conns = [c \in Conns |-> NoConn]

\* Dial is called in the exchange x
DialCalled(x) ==
    /\ urls = x.Url
    /\ dialOpts = DialOptions(x)
    /\ callerOpts = [nil |-> x.OptsNil, v |-> DialOptions(x)]
    /\ respBody = Body(x.BodyLen, x.BodyStalls)
    /\ timer = "none"
    /\ rand = x.Rand
    /\ peer = Peer(x)
    /\ dialChallenge = <<>>
    /\ dialCopts = NilCopts
    /\ dialReq = NoRequest
    /\ resp = NoResponse
    /\ dialRet = NoDialRet

\* a server on which Accept is called, next to a client that stays idle
Init ==
    /\ \/ \E x \in Deviating(MaxDeviations) : AcceptCalled(x)
       \/ \E x \in Calls : AcceptCalled(x)
    /\ pc = "verify"
    /\ DialCalled(PlainExchange)
    /\ dialPc = "idle"
    /\ TransportIs(PlainTransport)
    /\ PoolsEmpty
    /\ NothingCalled

Next ==
    \/ VerifyRequest
    \/ AuthenticateOrigin
    \/ CheckHijacker
    \/ SetResponseHeaders
    \/ WriteSwitchingProtocols
    \/ HijackOK
    \/ HijackFails

Spec == Init /\ [][Next]_vars

\* a server on which Accept is called by a client that goes on sending, and
\* the Connection that reads what it sends
InitConn ==
    /\ AcceptCalled(PlainCall)
    /\ pc = "verify"
    /\ \E t \in Transports : TransportIs(t)
    /\ DialCalled(PlainExchange)
    /\ dialPc = "idle"
    /\ PoolsEmpty
    /\ NothingCalled

NextConn ==
    \/ VerifyRequest
    \/ AuthenticateOrigin
    \/ CheckHijacker
    \/ SetResponseHeaders
    \/ WriteSwitchingProtocols
    \/ HijackOK
    \/ HijackFails
    \/ ConnRead

SpecConn == InitConn /\ [][NextConn]_vars

\* clients that dial and release their connections side by side, from the
\* point where each dial makes its connection
InitPool ==
    /\ PoolsEmpty
    /\ NothingCalled
    /\ AcceptCalled(PlainCall)
    /\ pc = "idle"
    /\ DialCalled(PlainExchange)
    /\ dialPc = "idle"
    /\ TransportIs(PlainTransport)

NextPool ==
    \/ DialGetReader
    \/ DialGetWriter
    \/ ConnRelease

SpecPool == InitPool /\ [][NextPool]_vars

\* a client on which Dial is called, next to a server that stays idle
InitDial ==
    /\ \/ \E x \in DeviatingExchanges(MaxDeviations) : DialCalled(x)
       \/ \E x \in Exchanges : DialCalled(x)
    /\ dialPc = "defaults"
    /\ AcceptCalled(PlainCall)
    /\ pc = "idle"
    /\ TransportIs(PlainTransport)
    /\ PoolsEmpty
    /\ NothingCalled

NextDial ==
    \/ ApplyDefaults
    \/ GenerateChallenge
    \/ HandshakeRequest
    \/ VerifyServerResponse
    \/ NewClientConn
    \/ StartTimer
    \/ ReadSome
    \/ TimerFires
    \/ ReadReturns

SpecDial == InitDial /\ [][NextDial]_vars

\* the steps of the deferred function of dial
DeferredSteps ==
    \/ StartTimer
    \/ ReadSome
    \/ ReadReturns

\* the Go scheduler runs a goroutine that can run, here the one of dial in
\* its deferred function, and the runtime runs the function of a timer that
\* was started and not stopped
SpecDialLive ==
    /\ InitDial
    /\ [][NextDial]_vars
    /\ WF_vars(DeferredSteps)
    /\ WF_vars(TimerFires)

(***************************************************************************)
(* Dial against Accept: the request dial builds is the one accept is       *)
(* called with, and the response accept writes is the one dial verifies.   *)
(***************************************************************************)
\* the request as the server gets it: net/http sends HTTP/1.1, and dial
\* sets no Origin
ServerRequest(q) ==
    [Proto |-> <<1, 1>>, Method |-> q.Method, Connection |-> q.Connection,
     Upgrade |-> q.Upgrade, Version |-> q.Version, Key |-> q.Key,
     Origin |-> Absent, Host |-> q.Host, Protocol |-> q.Protocol,
     Extensions |-> q.Extensions]

\* the response as the client gets it: the status is that of the first
\* WriteHeader, and the body of a 101 response can be written to
ClientResponse(rw) ==
    [received |-> TRUE, StatusCode |-> Status(rw),
     Connection |-> rw.header.Connection, Upgrade |-> rw.header.Upgrade,
     Accept |-> rw.header.Accept, Protocol |-> rw.header.Protocol,
     Extensions |-> rw.header.Extensions,
     rwc |-> Status(rw) = StatusSwitchingProtocols]

\* handshakeRequest, part_001 lines 135-168, with a client without Timeout
\* and a url it takes: the request goes to the server
SendRequest ==
    /\ dialPc = "request"
    /\ pc = "idle"
    /\ dialOpts.HTTPClient.Timeout <= 0
    /\ ~urlParse(urls).err
    /\ urlParse(urls).Scheme \in {sWs, sWss, sHttp, sHttps}
    /\ dialReq' = handshakeRequestFor(urlParse(urls), dialOpts, dialCopts, dialChallenge)
    /\ r' = ServerRequest(dialReq')
    /\ pc' = "verify"
    /\ dialPc' = "wait"
    /\ UNCHANGED <<urls, dialOpts, rand, peer, dialChallenge, dialCopts, resp, dialRet>>
    /\ UNCHANGED <<callerOpts, respBody, timer>>
    /\ UNCHANGED <<opts, w, challenge, subproto, copts, ret>>
    /\ UNCHANGED <<connVars, poolVars, callVars>>

\* client.Do returns, part_001 line 168, once the server has answered
ReceiveResponse ==
    /\ dialPc = "wait"
    /\ pc = "done"
    /\ resp' = ClientResponse(w)
    /\ dialPc' = "verify"
    /\ UNCHANGED <<urls, dialOpts, rand, peer, dialChallenge, dialCopts, dialReq, dialRet>>
    /\ UNCHANGED <<callerOpts, respBody, timer>>
    /\ UNCHANGED <<acceptVars, connVars, poolVars, callVars>>

\* the options of the two ends
PairModes ==
    {"CompressionDisabled", "CompressionNoContextTakeover", "CompressionContextTakeover"}

ClientSubprotocols == {<<>>, <<sFoo>>, <<sBAR, sFOO>>, <<sBar, sFoo>>}

ServerSubprotocols == {<<>>, <<sFOO>>, <<sBAR, sFOO>>, <<sMeow>>}

\* a client that dials a server that accepts; the body of a response that
\* is no 101 has three bytes, or none and stalls
InitPair ==
    /\ \E cm \in PairModes, cs \in ClientSubprotocols, st \in BOOLEAN :
          DialCalled([PlainExchange EXCEPT !.CompressionMode = cm,
                                           !.Subprotocols = cs,
                                           !.BodyLen = IF st THEN 0 ELSE 3,
                                           !.BodyStalls = st])
    /\ dialPc = "defaults"
    /\ \E sm \in PairModes, ss \in ServerSubprotocols, hj \in BOOLEAN :
          AcceptCalled([PlainCall EXCEPT !.CompressionMode = sm,
                                         !.Subprotocols = ss,
                                         !.Hijacker = hj])
    /\ pc = "idle"
    /\ TransportIs(PlainTransport)
    /\ PoolsEmpty
    /\ NothingCalled

NextPair ==
    \/ ApplyDefaults
    \/ GenerateChallenge
    \/ SendRequest
    \/ VerifyRequest
    \/ AuthenticateOrigin
    \/ CheckHijacker
    \/ SetResponseHeaders
    \/ WriteSwitchingProtocols
    \/ HijackOK
    \/ HijackFails
    \/ ReceiveResponse
    \/ VerifyServerResponse
    \/ NewClientConn
    \/ StartTimer
    \/ ReadSome
    \/ TimerFires
    \/ ReadReturns

SpecPair == InitPair /\ [][NextPair]_vars

(***************************************************************************)
(* The header packages called on their own                                 *)
(*                                                                         *)
(* A caller hands a string to ReadToken, ParseTokenList or QuoteString, or *)
(* the values a header map holds under one key to ParseTokenLists,         *)
(* VerifyConnection, VerifyClientUpgrade or ParseExtensions, and goes on   *)
(* with what it got: ReadQuotedString on the quoted string, String() on    *)
(* the parsed extensions and ParseExtensions on the header SetExtensions   *)
(* makes of them.                                                          *)
(***************************************************************************)
\* the longest string handed to a function
MaxText == 3

\* the most pieces an extension header value is made of
MaxPieces == 3

\* the bytes of the strings: token characters, separators, white space, a
\* control character and a byte above 127
Bytes == {"a", "B", ",", " ", ";", "=", "\"", "\\", "\t", "0x00", "0xe9"}

\* the strings of at most n bytes
Texts(n) == UNION {[1..k -> Bytes] : k \in 0..n}

\* values of a header that holds a list of tokens
TokenValues ==
    {<<>>, <<",">>, <<" ", ",", "\t">>, sUpgrade, sKeepAliveUpgrade, sWebsocketLower,
     sFooSpaceBar, <<",", " ", "a", ",", ",", "B", " ">>, <<"a", ",", "0xe9">>}

\* what the values of Sec-WebSocket-Extensions are made of: a name,
\* parameters without a value, with a token, with quoted strings (of a
\* token, with an escaped byte, empty, unterminated, with a space in it), with
\* nothing after the "=", and separators
ExtensionPieces ==
    {<<"a">>,
     <<";", "b">>,
     <<";", "b", "=", "c">>,
     <<";", " ", "b", "=", "\"", "\\", "c", "\"", " ">>,
     <<";", "b", "=", "\"", "\"">>,
     <<";", "b", "=", "\"", "c">>,
     <<";", "b", "=">>,
     <<";", "b", "=", "\"", "c", " ", "d", "\"">>,
     <<",">>,
     <<" ", ",", " ", "B">>}

RECURSIVE ExtensionTexts(_)
\* the strings made of at most n pieces
ExtensionTexts(n) ==
    IF n = 0 THEN {<<>>}
    ELSE LET shorter == ExtensionTexts(n - 1) IN
         shorter \cup {t \o p : t \in shorter, p \in ExtensionPieces}

\* the values a header map holds under one key: none (the key is missing),
\* an empty list, one value or two
HeaderValues ==
    {Absent, Values(<<>>)}
        \cup {Values(<<a>>) : a \in TokenValues}
        \cup {Values(<<a, b>>) : a \in TokenValues, b \in TokenValues}
        \cup {Values(<<a>>) : a \in ExtensionTexts(MaxPieces)}
        \cup {Values(<<a, b>>) : a \in ExtensionTexts(1), b \in ExtensionTexts(1)}

StringArg(s) == [type |-> "string", val |-> s]

HeaderArg(h) == [type |-> "header", val |-> h]

\* httpheaders.ReadToken(s)
CallReadToken ==
    /\ fn = "none"
    /\ arg.type = "string"
    /\ fn' = "ReadToken"
    /\ out' = ReadToken(arg.val)
    /\ UNCHANGED <<arg, acceptVars, dialVars, connVars, poolVars>>

\* httpheaders.ParseTokenList(value)
CallParseTokenList ==
    /\ fn = "none"
    /\ arg.type = "string"
    /\ fn' = "ParseTokenList"
    /\ out' = ParseTokenList(arg.val)
    /\ UNCHANGED <<arg, acceptVars, dialVars, connVars, poolVars>>

\* httpheaders.ParseTokenLists(values)
CallParseTokenLists ==
    /\ fn = "none"
    /\ arg.type = "header"
    /\ fn' = "ParseTokenLists"
    /\ out' = ParseTokenLists(arg.val.vals)
    /\ UNCHANGED <<arg, acceptVars, dialVars, connVars, poolVars>>

\* httpheaders.QuoteString(s)
CallQuoteString ==
    /\ fn = "none"
    /\ arg.type = "string"
    /\ fn' = "QuoteString"
    /\ out' = [err |-> FALSE, quoted |-> QuoteString(arg.val)]
    /\ UNCHANGED <<arg, acceptVars, dialVars, connVars, poolVars>>

\* httpheaders.ReadQuotedString on what QuoteString returned
CallReadQuotedString ==
    /\ fn = "QuoteString"
    /\ fn' = "ReadQuotedString"
    /\ out' = ReadQuotedString(out.quoted)
    /\ UNCHANGED <<arg, acceptVars, dialVars, connVars, poolVars>>

\* wsheaders.VerifyConnection(header): "ok", "err", or "panic" when the call
\* does not return
CallVerifyConnection ==
    /\ fn = "none"
    /\ arg.type = "header"
    /\ fn' = "VerifyConnection"
    /\ out' = [err |-> VerifyConnection(arg.val)]
    /\ UNCHANGED <<arg, acceptVars, dialVars, connVars, poolVars>>

\* wsheaders.VerifyClientUpgrade(header)
CallVerifyClientUpgrade ==
    /\ fn = "none"
    /\ arg.type = "header"
    /\ fn' = "VerifyClientUpgrade"
    /\ out' = [err |-> VerifyClientUpgrade(arg.val)]
    /\ UNCHANGED <<arg, acceptVars, dialVars, connVars, poolVars>>

\* wsheaders.ParseExtensions(header)
CallParseExtensions ==
    /\ fn = "none"
    /\ arg.type = "header"
    /\ fn' = "ParseExtensions"
    /\ out' = ParseExtensions(arg.val)
    /\ UNCHANGED <<arg, acceptVars, dialVars, connVars, poolVars>>

\* Extensions.String() on the extensions ParseExtensions returned
CallString ==
    /\ fn = "ParseExtensions"
    /\ ~out.err
    /\ fn' = "String"
    /\ out' = [err |-> FALSE, exts |-> out.exts, str |-> ExtensionsString(out.exts)]
    /\ UNCHANGED <<arg, acceptVars, dialVars, connVars, poolVars>>

\* wsheaders.SetExtensions on a new header map, which sets the header to
\* what String() returned, and ParseExtensions on that map
CallParseAgain ==
    /\ fn = "String"
    /\ fn' = "ParseAgain"
    /\ out' = [err |-> FALSE, exts |-> out.exts, str |-> out.str,
               again |-> ParseExtensions(One(out.str))]
    /\ UNCHANGED <<arg, acceptVars, dialVars, connVars, poolVars>>

\* a caller of the header packages, next to a server and a client that stay
\* idle
InitHeaders ==
    /\ \/ \E s \in Texts(MaxText) : arg = StringArg(s)
       \/ \E h \in HeaderValues : arg = HeaderArg(h)
    /\ fn = "none"
    /\ out = NoOut
    /\ AcceptCalled(PlainCall)
    /\ pc = "idle"
    /\ DialCalled(PlainExchange)
    /\ dialPc = "idle"
    /\ TransportIs(PlainTransport)
    /\ PoolsEmpty

NextHeaders ==
    \/ CallReadToken
    \/ CallParseTokenList
    \/ CallParseTokenLists
    \/ CallQuoteString
    \/ CallReadQuotedString
    \/ CallVerifyConnection
    \/ CallVerifyClientUpgrade
    \/ CallParseExtensions
    \/ CallString
    \/ CallParseAgain

SpecHeaders == InitHeaders /\ [][NextHeaders]_vars

(***************************************************************************)
(* Properties of Accept                                                    *)
(***************************************************************************)
\* a status code was written with WriteHeader(101)
WroteSwitchingProtocols ==
    \E i \in 1..Len(w.codes) : w.codes[i] = StatusSwitchingProtocols

\* the Origin header of the request as a URL
OriginURL == urlParse(Get(r.Origin))

\* the request has no Origin, or one of the host of the request, or one of
\* a host that matches an entry of OriginPatterns
OriginAllowed ==
    \/ Get(r.Origin) = <<>>
    \/ ~OriginURL.err /\ EqualFold(OriginURL.Host, r.Host)
    \/ /\ ~OriginURL.err
       /\ \E i \in 1..Len(opts.OriginPatterns) :
             globMatch(ToLower(opts.OriginPatterns[i]), ToLower(OriginURL.Host))

\* the request passes the six checks of the request verification
RequestVerified == verifyClientRequest(NoHeader, r).err = "none"

\* C1, as stated: with InsecureSkipVerify false, Accept returns a connection
\* only for a request whose Origin is absent, empty, of the request's host or
\* of a host matching an OriginPatterns entry; in every other case it never
\* writes 101 nor hijacks, and it ends with status 403 and an error.
C1_Forbidden ==
    ~opts.InsecureSkipVerify =>
        /\ ret.conn => OriginAllowed
        /\ ~OriginAllowed =>
              /\ ~WroteSwitchingProtocols
              /\ ~w.hijacked
              /\ pc = "done" =>
                    Status(w) = StatusForbidden /\ ret.err # "none" /\ ~ret.conn

\* C1, amended: with InsecureSkipVerify false, Accept returns a connection
\* only for a request whose Origin is absent, empty, of the request's host or
\* of a host matching an OriginPatterns entry; in every other case it never
\* writes 101 nor hijacks and it ends with an error, and the status is 403
\* when the request passes the request verification.
C1_ForbiddenOnceVerified ==
    ~opts.InsecureSkipVerify =>
        /\ ret.conn => OriginAllowed
        /\ ~OriginAllowed =>
              /\ ~WroteSwitchingProtocols
              /\ ~w.hijacked
              /\ pc = "done" =>
                    /\ ret.err # "none" /\ ~ret.conn
                    /\ RequestVerified => Status(w) = StatusForbidden

\* a verified request whose Origin matches none of the configured patterns
\* has been answered
C1_Witness ==
    /\ pc = "done"
    /\ ~opts.InsecureSkipVerify
    /\ opts.OriginPatterns # <<>>
    /\ RequestVerified
    /\ ~OriginAllowed
    /\ Status(w) = StatusForbidden

\* some value of the header parses as a token list that contains the token
HasToken(h, token) ==
    \E i \in 1..Len(h.vals) :
        LET list == ParseTokenList(h.vals[i]) IN
        ~list.err /\ ContainsToken(list.tokens, token)

\* the earliest check of the request verification the request fails
FirstFailingCheck ==
    IF ~ProtoAtLeast(r, 1, 1) THEN "proto"
    ELSE IF ~HasToken(r.Connection, sUpgrade) THEN "connection"
    ELSE IF ~HasToken(r.Upgrade, sWebSocket) THEN "upgrade"
    ELSE IF r.Method # sGET THEN "method"
    ELSE IF LET version == GetVersion(r.Version) IN version.err \/ version.v # 13
         THEN "version"
    ELSE IF GetChallenge(r.Key).err THEN "key"
    ELSE "none"

\* the status code of each check
CheckStatus(check) ==
    IF check \in {"proto", "connection", "upgrade"} THEN StatusUpgradeRequired
    ELSE IF check = "method" THEN StatusMethodNotAllowed
    ELSE IF check = "version" /\ GetVersion(r.Version).err THEN StatusUpgradeRequired
    ELSE StatusBadRequest

\* C3: the request verification answers with the status and the error of the
\* earliest of the six checks (HTTP version, Connection, Upgrade, method,
\* version, key) the request fails, and only a request that passes all six
\* yields the decoded challenge and no error.
C3_EarliestCheckWins ==
    pc # "verify" =>
        LET check == FirstFailingCheck IN
        IF check = "none"
        THEN /\ challenge = GetChallenge(r.Key).bytes
             /\ ret.err \notin {"proto", "connection", "upgrade", "method", "version", "key"}
        ELSE /\ pc = "done"
             /\ ret.err = check
             /\ Status(w) = CheckStatus(check)
             /\ challenge = <<>>
             /\ ~ret.conn

\* a request that fails the Upgrade check, the method check and the key
\* check has been answered
C3_Witness ==
    /\ pc = "done"
    /\ ret.err = "upgrade"
    /\ r.Method # sGET
    /\ GetChallenge(r.Key).err

\* the statuses of the stage an error comes from
StageStatus(err) ==
    IF err \in {"proto", "connection", "upgrade", "method", "version", "key"}
    THEN {StatusBadRequest, StatusMethodNotAllowed, StatusUpgradeRequired}
    ELSE IF err = "origin" THEN {StatusForbidden}
    ELSE IF err = "hijacker" THEN {StatusNotImplemented}
    ELSE IF err = "hijack" THEN {StatusInternalServerError}
    ELSE {}

\* C4: 101 is written only by an accept that returns a connection, and an
\* accept that returns an error has answered with the status of the failing
\* stage and returns no connection.
C4_ErrorStatus ==
    /\ WroteSwitchingProtocols /\ pc = "done" => ret.conn
    /\ pc = "done" /\ ret.err # "none" =>
          /\ ~ret.conn
          /\ Status(w) \in StageStatus(ret.err)

\* C7: the Connection check of the server (likewise its Upgrade check) passes
\* exactly when some value of the header parses as a token list containing
\* the token; further tokens and values that do not parse do not matter.
C7_SomeValueContainsToken ==
    pc # "verify" /\ ProtoAtLeast(r, 1, 1) =>
        LET upgrades == HasToken(r.Connection, sUpgrade) IN
        /\ ret.err = "connection" <=> ~upgrades
        /\ upgrades =>
              (ret.err = "upgrade" <=> ~HasToken(r.Upgrade, sWebSocket))

\* a Connection header with a value that does not parse and a value that
\* holds the token has passed the check
C7_Witness ==
    /\ pc # "verify"
    /\ ProtoAtLeast(r, 1, 1)
    /\ ret.err # "connection"
    /\ \E i \in 1..Len(r.Connection.vals) : ParseTokenList(r.Connection.vals[i]).err
    /\ HasToken(r.Connection, sUpgrade)

\* C8: the Sec-WebSocket-Accept of the response is the hash of the key text
\* as the client sent it.
C8_AcceptOfKeyAsSent ==
    w.header.Accept.present =>
        /\ w.header.Accept = One(secWebSocketAccept(Get(r.Key)))
        /\ hash(challenge) = secWebSocketAccept(Get(r.Key))

\* the response headers have been computed
HeadersSet == pc \in {"switch", "hijack"} \/ WroteSwitchingProtocols

\* the extensions the request offers
Offered == ParseExtensions(r.Extensions).exts

\* the offers that are permessage-deflate with acceptable parameters
AcceptableOffers ==
    LET offered == Offered IN
    {i \in 1..Len(offered) :
        /\ offered[i].Name = sPermessageDeflate
        /\ acceptDeflate(opts.CompressionMode, offered[i].Params).ok}

\* C9: the negotiation returns the options of the first offer named
\* permessage-deflate whose parameters are all acceptable, and returns no
\* options exactly when the mode is Disabled or no offer is acceptable.
C9_FirstAcceptableOffer ==
    HeadersSet =>
        LET acceptable == AcceptableOffers IN
        IF opts.CompressionMode = "CompressionDisabled" \/ acceptable = {}
        THEN copts = NoDeflate
        ELSE /\ copts.ok
             /\ copts = acceptDeflate(opts.CompressionMode,
                    Offered[CHOOSE i \in acceptable :
                               \A j \in acceptable : i <= j].Params)

\* a rejected permessage-deflate offer was followed by an accepted one
C9_Witness ==
    /\ HeadersSet
    /\ copts.ok
    /\ \E i \in 1..Len(Offered) :
          /\ Offered[i].Name = sPermessageDeflate
          /\ i \notin AcceptableOffers
          /\ \E j \in AcceptableOffers : i < j

\* the parameter is one a permessage-deflate offer may have
AcceptableParam(p) ==
    \/ p.Name = sClientNoContextTakeover /\ p.Value = <<>>
    \/ p.Name = sServerNoContextTakeover /\ p.Value = <<>>
    \/ p.Name = sClientMaxWindowBits /\ p.Value = <<>>
    \/ p.Name = sClientMaxWindowBits /\ p.Value \in {s8, <<"9">>, s10, <<"1","1">>, <<"1","2">>, <<"1","3">>, <<"1","4">>, s15}
    \/ p.Name = sServerMaxWindowBits /\ p.Value = s15

\* no name occurs twice among the parameters and each of them is acceptable
AcceptableParams(ps) ==
    /\ \A i, j \in 1..Len(ps) : i # j => ps[i].Name # ps[j].Name
    /\ \A i \in 1..Len(ps) : AcceptableParam(ps[i])

\* C27: a permessage-deflate offer is acceptable to the server exactly when
\* no parameter name occurs twice in it and each parameter is
\* client_no_context_takeover or server_no_context_takeover without a value,
\* client_max_window_bits without a value or with one in 8-15, or
\* server_max_window_bits with the value 15; the negotiation gives options
\* exactly when the request has such an offer.
C27_AcceptableOffer ==
    HeadersSet /\ opts.CompressionMode # "CompressionDisabled" =>
        LET offered == Offered IN
        /\ \A i \in 1..Len(offered) :
              acceptDeflate(opts.CompressionMode, offered[i].Params).ok
              <=> AcceptableParams(offered[i].Params)
        /\ copts.ok <=>
              \E i \in 1..Len(offered) :
                  /\ offered[i].Name = sPermessageDeflate
                  /\ AcceptableParams(offered[i].Params)

\* an offer with server_max_window_bits=15 and client_max_window_bits=8 has
\* been accepted
C27_Witness ==
    /\ HeadersSet
    /\ copts.ok
    /\ Len(Offered) = 1
    /\ Offered[1].Params =
          <<Param(sServerMaxWindowBits, s15), Param(sClientMaxWindowBits, s8)>>

\* the parameters have one of that name
Carries(ps, name) == \E i \in 1..Len(ps) : ps[i].Name = name

\* the offers named permessage-deflate whose parameters are acceptable
GoodOffers ==
    LET offered == Offered IN
    {i \in 1..Len(offered) :
        offered[i].Name = sPermessageDeflate /\ AcceptableParams(offered[i].Params)}

\* the parameters of the first of them
AcceptedParams ==
    LET good == GoodOffers IN
    Offered[CHOOSE i \in good : \A j \in good : i <= j].Params

\* C28: the options the negotiation of the server returns are those of the
\* mode, with clientNoContextTakeover (likewise serverNoContextTakeover)
\* true besides exactly when the accepted offer has that parameter; the
\* parameters of offers refused before it do not count, and in the mode
\* CompressionNoContextTakeover both flags are true for every accepted offer.
C28_OptionsOfAcceptedOffer ==
    HeadersSet /\ copts.ok =>
        /\ GoodOffers # {}
        /\ ~copts.copts.nil
        /\ LET accepted == AcceptedParams IN
           /\ copts.copts.clientNoContextTakeover <=>
                 \/ opts.CompressionMode = "CompressionNoContextTakeover"
                 \/ Carries(accepted, sClientNoContextTakeover)
           /\ copts.copts.serverNoContextTakeover <=>
                 \/ opts.CompressionMode = "CompressionNoContextTakeover"
                 \/ Carries(accepted, sServerNoContextTakeover)

\* after a refused offer with client_no_context_takeover an offer without it
\* has been accepted with the flag false
C28_Witness ==
    /\ HeadersSet
    /\ copts.ok
    /\ ~copts.copts.clientNoContextTakeover
    /\ \E i \in 1..Len(Offered) :
          /\ i \notin GoodOffers
          /\ Offered[i].Name = sPermessageDeflate
          /\ Carries(Offered[i].Params, sClientNoContextTakeover)
          /\ \E j \in GoodOffers : i < j

\* the canonical text of negotiated options
CanonicalDeflate(c) ==
    sPermessageDeflate
    \o (IF c.clientNoContextTakeover
        THEN <<";", " ">> \o sClientNoContextTakeover ELSE <<>>)
    \o (IF c.serverNoContextTakeover
        THEN <<";", " ">> \o sServerNoContextTakeover ELSE <<>>)

\* C10: the response has a Sec-WebSocket-Extensions header exactly when the
\* negotiation accepted an offer, and its value is the canonical text of the
\* negotiated options alone.
C10_CanonicalExtensions ==
    IF HeadersSet /\ selectDeflate(opts.CompressionMode, Offered).ok
    THEN w.header.Extensions =
            One(CanonicalDeflate(selectDeflate(opts.CompressionMode, Offered).copts))
    ELSE ~w.header.Extensions.present

\* an offer was accepted among several and answered in other words than
\* those of the request
C10_Witness ==
    /\ HeadersSet
    /\ Len(Offered) > 1
    /\ w.header.Extensions.present
    /\ Get(w.header.Extensions) # Get(r.Extensions)

\* the subprotocols the request offers, none when the header is no token list
OfferedProtocols ==
    IF ParseTokenLists(r.Protocol.vals).err THEN <<>>
    ELSE ParseTokenLists(r.Protocol.vals).tokens

\* the supported subprotocols that some offered token equals up to case
SupportedMatches ==
    {i \in 1..Len(opts.Subprotocols) :
        \E j \in 1..Len(OfferedProtocols) :
            EqualFold(opts.Subprotocols[i], OfferedProtocols[j])}

\* C13: the selected subprotocol is the first entry of the server's list
\* that equals an offered token up to case, in the server's spelling; there
\* is no selection when none matches, the header is absent or it does not
\* parse, and the handshake goes on either way.
C13_FirstSupportedProtocol ==
    HeadersSet =>
        IF SupportedMatches = {}
        THEN ~subproto.ok /\ ~w.header.Protocol.present
        ELSE /\ subproto.ok
             /\ subproto.proto \in {opts.Subprotocols[i] : i \in SupportedMatches}
             /\ \A i \in SupportedMatches :
                    opts.Subprotocols[i] = subproto.proto \/
                    \E k \in SupportedMatches :
                        k < i /\ opts.Subprotocols[k] = subproto.proto
             /\ w.header.Protocol = One(subproto.proto)

\* the client prefers foo, the server BAR, and BAR has been selected
C13_Witness ==
    /\ pc = "done"
    /\ ret.conn
    /\ r.Protocol = One(sFooBar)
    /\ opts.Subprotocols = <<sBAR, sFOO>>
    /\ ret.subprotocol = sBAR

\* the request passes the checks that precede that of the version
ReachesVersion ==
    /\ pc # "verify"
    /\ ProtoAtLeast(r, 1, 1)
    /\ HasToken(r.Connection, sUpgrade)
    /\ HasToken(r.Upgrade, sWebSocket)
    /\ r.Method = sGET

\* the header has one, non-empty value that is a number in 0-255
VersionWellFormed ==
    /\ Len(r.Version.vals) = 1
    /\ r.Version.vals[1] # <<>>
    /\ ~Atoi(TrimSpace(r.Version.vals[1])).err
    /\ Atoi(TrimSpace(r.Version.vals[1])).n \in 0..255

OriginPassed ==
    \/ opts.InsecureSkipVerify
    \/ authenticateOrigin(r, opts.OriginPatterns) = "ok"

\* the first of the three stages of accept the call fails
FailingStage ==
    IF FirstFailingCheck # "none" THEN "verify"
    ELSE IF ~OriginPassed THEN "origin"
    ELSE IF ~w.hijacker THEN "hijacker"
    ELSE "none"

\* the status and the error are those of the first stage that fails
FirstFailingStageAnswers ==
    pc = "done" =>
        LET stage == FailingStage
            check == FirstFailingCheck
        IN
        /\ stage = "verify" =>
              /\ ret.err = check
              /\ w.codes = <<CheckStatus(check)>>
        /\ stage = "origin" =>
              /\ ret.err = "origin"
              /\ w.codes = <<StatusForbidden>>
        /\ stage = "hijacker" =>
              /\ ret.err = "hijacker"
              /\ w.codes = <<StatusNotImplemented>>

\* C26, as stated: Accept answers with the status of the first of request
\* verification, origin authorization and hijack-capability check that
\* fails, and Upgrade, Connection and Sec-WebSocket-Accept are set on the
\* response only after all three have passed.
C26_StageOrder ==
    /\ FirstFailingStageAnswers
    /\ \/ w.header.Upgrade.present
       \/ w.header.Connection.present
       \/ w.header.Accept.present
       => FailingStage = "none"

\* C26, amended: Accept answers with the status of the first of the three
\* stages that fails; Sec-WebSocket-Accept is set on the response only after
\* all three have passed, Upgrade and Connection only then or with the 426
\* of a request that fails the Connection check or the Upgrade check.
C26_StageOrderHints ==
    /\ FirstFailingStageAnswers
    /\ w.header.Accept.present => FailingStage = "none"
    /\ w.header.Upgrade.present \/ w.header.Connection.present =>
          \/ /\ pc = "done"
             /\ FirstFailingCheck \in {"connection", "upgrade"}
             /\ w.codes = <<StatusUpgradeRequired>>
             /\ w.header.Upgrade = One(sWebSocket)
             /\ w.header.Connection = One(sUpgrade)
          \/ FailingStage = "none"

\* a request without hijack support whose Origin is not authorized has been
\* answered 403
C26_Witness ==
    /\ pc = "done"
    /\ FailingStage = "origin"
    /\ ~w.hijacker
    /\ w.codes = <<StatusForbidden>>
    /\ ~w.header.Accept.present

\* some value of the Sec-WebSocket-Extensions header of the request is no
\* list of extensions
ExtensionsMalformed ==
    \E i \in 1..Len(r.Extensions.vals) : parseExtensionList(r.Extensions.vals[i]).err

\* C29: a Sec-WebSocket-Extensions header of the request that does not parse
\* never fails Accept: all its offers are dropped, also an acceptable one
\* before what does not parse or in another value of the header, no
\* Sec-WebSocket-Extensions is sent, and the handshake goes on to 101
\* without compression.
C29_MalformedExtensionsIgnored ==
    ExtensionsMalformed =>
        /\ copts = NoDeflate
        /\ ~w.header.Extensions.present
        /\ ret.copts = NilCopts
        /\ pc = "done" /\ FailingStage = "none" =>
              /\ w.codes[1] = StatusSwitchingProtocols
              /\ ret.conn \/ ret.err = "hijack"

\* a header with an acceptable offer in one value and a value that does not
\* parse has been answered 101 and a connection returned
C29_Witness ==
    /\ ExtensionsMalformed
    /\ Len(r.Extensions.vals) > 1
    /\ ~parseExtensionList(r.Extensions.vals[1]).err
    /\ opts.CompressionMode # "CompressionDisabled"
    /\ pc = "done"
    /\ ret.conn
    /\ w.codes = <<StatusSwitchingProtocols>>

(***************************************************************************)
(* Properties of Dial                                                      *)
(***************************************************************************)
\* the header has one value, which is the token alone
SingleToken(h, token) ==
    /\ Len(h.vals) = 1
    /\ ~ParseTokenList(h.vals[1]).err
    /\ Len(ParseTokenList(h.vals[1]).tokens) = 1
    /\ EqualFold(ParseTokenList(h.vals[1]).tokens[1], token)

\* the response has been verified
ResponseVerified == dialPc \in {"body", "deferred", "read", "done"} /\ resp.received

\* Hash(challenge) for the challenge of this dial
ExpectedAccept == Sha1SaltB64(B64Encode(dialChallenge))

\* the response passes the checks that precede that of Sec-WebSocket-Accept
ReachesAccept ==
    /\ ResponseVerified
    /\ resp.StatusCode = StatusSwitchingProtocols
    /\ VerifyConnection(resp.Connection) = "ok"
    /\ VerifyServerUpgrade(resp.Upgrade) = "ok"

C5_ConnectionIsUpgrade ==
    /\ ResponseVerified /\ dialRet.err \notin {"status", "connection"} =>
          SingleToken(resp.Connection, sUpgrade)
    /\ dialRet.conn => SingleToken(resp.Connection, sUpgrade)

\* C6: the Upgrade check of the client passes only for a header that, across
\* all its values, is the single token websocket in any letter case.
C6_UpgradeIsWebsocket ==
    /\ ResponseVerified
    /\ resp.StatusCode = StatusSwitchingProtocols
    /\ VerifyConnection(resp.Connection) = "ok"
    => (dialRet.err = "upgrade" <=> ~SingleToken(resp.Upgrade, sWebSocket))

\* an Upgrade header with a second token after websocket has been rejected
C6_Witness ==
    /\ ResponseVerified
    /\ dialRet.err = "upgrade"
    /\ resp.Upgrade = One(sWebsocketFoo)

\* the options the client offered in its request
OfferedCopts ==
    IF dialOpts.CompressionMode # "CompressionDisabled"
    THEN modeOpts(dialOpts.CompressionMode) ELSE NilCopts

\* the response passes the checks that precede that of the extensions
ReachesExtensions ==
    /\ ReachesAccept
    /\ VerifyAccept(resp.Accept, dialChallenge) = "ok"
    /\ verifySubprotocol(dialOpts.Subprotocols, resp)

\* the extensions of the response
ResponseExtensions == websocketExtensions(resp.Extensions)

IsServerBits(p) == HasPrefixString(p, sServerMaxWindowBitsEq)

\* every parameter is one of the two flags or the window bits of the server
AllowedParams(ps) ==
    \A k \in 1..Len(ps) :
        \/ ps[k] \in {sClientNoContextTakeover, sServerNoContextTakeover}
        \/ IsServerBits(ps[k])

Named(ps, flag) == \E k \in 1..Len(ps) : ps[k] = flag

\* C11: a response without extensions negotiates no compression and is no
\* error; a response with extensions passes only if it has one extension,
\* permessage-deflate, the client offered compression and every parameter
\* is a flag without value or server_max_window_bits=<n>, the result being
\* the offered options with the named flags set; any other response fails
\* the handshake with no options.
C11_ServerExtensions ==
    ReachesExtensions =>
        IF Len(ResponseExtensions) = 0
        THEN dialRet.err # "extensions" /\ dialCopts = NilCopts
        ELSE IF /\ Len(ResponseExtensions) = 1
                /\ ResponseExtensions[1].name = sPermessageDeflate
                /\ ~OfferedCopts.nil
                /\ AllowedParams(ResponseExtensions[1].params)
        THEN /\ dialRet.err # "extensions"
             /\ dialCopts =
                   Copts(\/ OfferedCopts.clientNoContextTakeover
                         \/ Named(ResponseExtensions[1].params, sClientNoContextTakeover),
                         \/ OfferedCopts.serverNoContextTakeover
                         \/ Named(ResponseExtensions[1].params, sServerNoContextTakeover))
        ELSE /\ dialRet.err = "extensions"
             /\ dialCopts = NilCopts
             /\ ~dialRet.conn

\* a client in context-takeover mode has got a connection whose options
\* carry the flag the response names
C11_Witness ==
    /\ dialPc = "done"
    /\ dialRet.conn
    /\ dialOpts.CompressionMode = "CompressionContextTakeover"
    /\ resp.Extensions = One(sDeflateClientNoContext)
    /\ dialRet.copts = Copts(TRUE, FALSE)

ReachesSubprotocol ==
    /\ ReachesAccept
    /\ VerifyAccept(resp.Accept, dialChallenge) = "ok"

\* v equals, up to letter case, a subprotocol the client offered
OfferedMatch(v) ==
    \E i \in 1..Len(dialOpts.Subprotocols) : EqualFold(dialOpts.Subprotocols[i], v)

SeveralProtocols ==
    \/ Len(resp.Protocol.vals) > 1
    \/ /\ Len(resp.Protocol.vals) = 1
       /\ ~ParseTokenList(resp.Protocol.vals[1]).err
       /\ Len(ParseTokenList(resp.Protocol.vals[1]).tokens) > 1

\* C15: a response whose Sec-WebSocket-Protocol carries more than one
\* token, in one value or in several, fails the verification, even when the
\* first token is one the client offered.
C15_OneProtocolOnly ==
    ReachesSubprotocol /\ SeveralProtocols =>
        dialRet.err = "subprotocol" /\ ~dialRet.conn

\* C16: the subprotocol of the connection is the client's own spelling of
\* the subprotocol the server answered.
C16_OfferedSpelling ==
    dialRet.conn /\ Get(resp.Protocol) # <<>> =>
        /\ OfferedMatch(dialRet.subprotocol)
        /\ dialRet.subprotocol \in Range(dialOpts.Subprotocols)

(***************************************************************************)
(* The options of the caller                                               *)
(***************************************************************************)
\* C18: neither Dial nor Accept modifies the options the caller passed: no
\* step changes the DialOptions of the caller, its HTTPClient, its
\* HTTPHeader or the entries of that header, nor the AcceptOptions.
C18_OptionsUnchanged == [][callerOpts' = callerOpts /\ opts' = opts]_vars

(***************************************************************************)
(* The body of a response dial refuses                                     *)
(***************************************************************************)
\* C19: once dial has returned after it received a response, with an error
\* the body of the response is closed and the Body of the response it
\* returns holds the first bytes of that body, 1024 of them at most; the
\* body is open only when a connection was returned, which owns it.
C19_BodyClosedOnFailure ==
    dialPc = "done" /\ resp.received =>
        /\ dialRet.err # "none" =>
              /\ respBody.closed
              /\ ~dialRet.body.nil
              /\ dialRet.body.bytes <= DiagnosticLimit
              /\ dialRet.body.bytes <= respBody.len
              /\ dialRet.body.bytes = respBody.read
        /\ ~respBody.closed => dialRet.conn

\* a refused response with a body of more than 1024 bytes has been returned
\* with the first 1024 of them, the body closed
C19_Witness ==
    /\ dialPc = "done"
    /\ resp.received
    /\ dialRet.err # "none"
    /\ respBody.len > DiagnosticLimit
    /\ respBody.closed
    /\ dialRet.body.bytes = DiagnosticLimit

\* C20: the read of the body of a refused response does not block for ever:
\* when the body stalls the timer fires and closes it, and dial returns.
C20_DiagnosticReadEnds ==
    /\ (dialPc = "read") ~> (dialPc = "done")
    /\ (dialPc = "read" /\ ~readEnds(respBody) /\ readNow(respBody, 1) = 0)
          ~> (timer = "fired" /\ respBody.closed)

\* dial has returned from a body that stalled short of 1024 bytes, after the
\* timer fired
C20_Witness ==
    /\ dialPc = "done"
    /\ respBody.stalls
    /\ respBody.read = respBody.len
    /\ respBody.len < DiagnosticLimit
    /\ timer = "fired"
    /\ ~dialRet.body.nil

(***************************************************************************)
(* The request of Dial                                                     *)
(***************************************************************************)
\* handshakeRequest has been called
RequestAttempted ==
    dialPc \notin {"idle", "defaults", "challenge", "request"} /\ dialRet.err # "rand"

\* C21: Dial sends no request and returns an error when the HTTP client has
\* a positive Timeout, when the url does not parse or when its scheme is
\* none of ws, wss, http, https; otherwise the request is sent, to http for
\* ws, to https for wss, and to the scheme of the url for http and https.
C21_RequestOnlyForGoodUrl ==
    RequestAttempted =>
        IF \/ dialOpts.HTTPClient.Timeout > 0
           \/ urlParse(urls).err
           \/ urlParse(urls).Scheme \notin {sWs, sWss, sHttp, sHttps}
        THEN /\ ~dialReq.sent
             /\ ~resp.received
             /\ dialPc = "done"
             /\ dialRet.err \in {"timeout", "url", "scheme"}
             /\ ~dialRet.conn
        ELSE /\ dialReq.sent
             /\ dialRet.err \notin {"timeout", "url", "scheme"}
             /\ urlParse(urls).Scheme = sWs => dialReq.Scheme = sHttp
             /\ urlParse(urls).Scheme = sWss => dialReq.Scheme = sHttps
             /\ urlParse(urls).Scheme \in {sHttp, sHttps} =>
                   dialReq.Scheme = urlParse(urls).Scheme

\* a request has been sent to https for a url of scheme wss
C21_Witness ==
    /\ RequestAttempted
    /\ urlParse(urls).Scheme = sWss
    /\ dialReq.sent
    /\ dialReq.Scheme = sHttps

\* C22: every request Dial sends is a GET with Connection: Upgrade,
\* Upgrade: WebSocket, Sec-WebSocket-Version: 13 and the base64 of the
\* challenge as Sec-WebSocket-Key, whatever the HTTPHeader of the caller has
\* for them; it has Sec-WebSocket-Protocol exactly when Subprotocols is not
\* empty and Sec-WebSocket-Extensions exactly when CompressionMode is not
\* CompressionDisabled.
C22_RequestHeaders ==
    dialReq.sent =>
        /\ dialReq.Method = sGET
        /\ dialReq.Connection = One(sUpgrade)
        /\ dialReq.Upgrade = One(sWebSocket)
        /\ dialReq.Version = One(s13)
        /\ dialReq.Key = One(B64Encode(dialChallenge))
        /\ dialReq.Protocol.present <=> Len(dialOpts.Subprotocols) > 0
        /\ dialReq.Extensions.present <=>
              dialOpts.CompressionMode # "CompressionDisabled"

(***************************************************************************)
(* The body a connection is made from                                      *)
(***************************************************************************)
\* dial has returned after a response that passes every check of its
\* headers
HeadersPassed ==
    /\ dialPc \in {"deferred", "read", "done"}
    /\ resp.received
    /\ verifyServerResponse(dialOpts, OfferedCopts, dialChallenge, resp).err = "none"

\* C23: Dial makes a connection only from a body that can be read and
\* written: for a response that passes every header check and has a body
\* that can only be read, Dial fails with the error of the body and returns
\* no connection.
C23_ConnectionNeedsDuplexBody ==
    /\ dialRet.conn => resp.received /\ resp.rwc
    /\ HeadersPassed /\ ~resp.rwc => dialRet.err = "body" /\ ~dialRet.conn
    /\ HeadersPassed /\ resp.rwc => dialRet.err = "none" /\ dialRet.conn

\* a response that passes the header checks with a read-only body has been
\* refused
C23_Witness ==
    /\ HeadersPassed
    /\ dialPc = "done"
    /\ ~resp.rwc
    /\ dialRet.err = "body"
    /\ ~dialRet.conn

(***************************************************************************)
(* The reader of an accepted Connection                                    *)
(***************************************************************************)
\* the bytes the Connection has not read yet, in the order its reader
\* yields them: those in the buffer, the rest of the slice, the transport
Pending ==
    SubSeq(brwReader.buf, brwReader.r + 1, brwReader.w)
    \o unread(brwReader, peeked) \o netConn

\* C24: after a hijack the reader of the Connection yields the bytes that
\* were buffered and unread in the reader of the http server, in their
\* order, and then those of the transport: what the Connection has read and
\* what it will read are together what the client sent, nothing lost,
\* doubled or out of order.
C24_NoByteLost ==
    ret.conn => connIn \o Pending = stream

\* the Connection has read all the client sent, the first bytes of which
\* were in the middle of the buffer of the http server at the hijack
C24_Witness ==
    /\ ret.conn
    /\ peeked.off > 0
    /\ peeked.len > 1
    /\ Len(stream) > peeked.len
    /\ connIn = stream

(***************************************************************************)
(* The pools of buffers                                                    *)
(***************************************************************************)
\* the connections that have a reader, and those that have a writer
HasReader == {c \in Conns : conns[c].state \in {"reader", "open"}}

HasWriter == {c \in Conns : conns[c].state = "open"}

\* C25: whatever the order of the dials and of the releases, the reader and
\* the writer a connection has from the pools wrap the stream of that
\* connection, no two connections have the same one, and none is in a pool
\* while a connection has it.
C25_PoolDiscipline ==
    /\ \A c \in HasReader :
          /\ readers[conns[c].br] = [made |-> TRUE, rd |-> c]
          /\ conns[c].br \notin bufioReaderPool
          /\ \A d \in HasReader \ {c} : conns[d].br # conns[c].br
    /\ \A c \in HasWriter :
          /\ writers[conns[c].bw] = [made |-> TRUE, rd |-> c]
          /\ conns[c].bw \notin bufioWriterPool
          /\ \A d \in HasWriter \ {c} : conns[d].bw # conns[c].bw

\* a connection has the reader an earlier connection returned, while a
\* third connection is open with another reader
C25_Witness ==
    \E c \in HasReader, d \in Conns, e \in HasReader :
        /\ e # c
        /\ conns[d].state = "closed"
        /\ conns[d].br = conns[c].br
        /\ readers[conns[c].br].rd = c
        /\ conns[e].br # conns[c].br

(***************************************************************************)
(* server_max_window_bits in the response                                  *)
(***************************************************************************)
\* the decimal numbers 8-15
WindowBits ==
    {s8, <<"9">>, s10, <<"1","1">>, <<"1","2">>, <<"1","3">>, <<"1","4">>, s15}

\* the value the parameter gives server_max_window_bits
ServerBitsValue(p) == SubSeq(p, Len(sServerMaxWindowBitsEq) + 1, Len(p))

\* C30: the client refuses a permessage-deflate response whose
\* server_max_window_bits is no number in 8-15 (7, 16 and a value that is no
\* number fail the handshake) and accepts one in 8-15, which leaves both
\* flags as they were offered.
C30_ServerBitsInRange ==
    /\ ReachesExtensions
    /\ ~OfferedCopts.nil
    /\ Len(ResponseExtensions) = 1
    /\ ResponseExtensions[1].name = sPermessageDeflate
    /\ Len(ResponseExtensions[1].params) = 1
    /\ IsServerBits(ResponseExtensions[1].params[1])
    => IF ServerBitsValue(ResponseExtensions[1].params[1]) \in WindowBits
       THEN dialRet.err # "extensions" /\ dialCopts = OfferedCopts
       ELSE dialRet.err = "extensions" /\ ~dialRet.conn

(***************************************************************************)
(* Repetitions in the extensions of the response                           *)
(***************************************************************************)
\* the name of the parameter: what precedes its "="
ParamName(p) == Split(p, "=")[1]

\* some name occurs twice among the parameters
RepeatsName(ps) ==
    \E i, j \in 1..Len(ps) : i # j /\ ParamName(ps[i]) = ParamName(ps[j])

\* C31: the client refuses a permessage-deflate response in which the name
\* of a parameter occurs twice, and a response that lists permessage-deflate
\* in two values of the header.
C31_NoRepetition ==
    ReachesExtensions /\ ~OfferedCopts.nil =>
        /\ /\ Len(ResponseExtensions) = 1
           /\ ResponseExtensions[1].name = sPermessageDeflate
           /\ RepeatsName(ResponseExtensions[1].params)
           => dialRet.err = "extensions" /\ ~dialRet.conn
        /\ /\ Len(resp.Extensions.vals) = 2
           /\ Len(ResponseExtensions) = 2
           /\ \A k \in 1..2 : ResponseExtensions[k].name = sPermessageDeflate
           => dialRet.err = "extensions" /\ ~dialRet.conn

(***************************************************************************)
(* The challenge                                                           *)
(***************************************************************************)
\* C32: the challenge is the first 16 bytes of the randomness source, and a
\* source that yields fewer than 16 bytes is an error: dial returns it
\* without a challenge that is shorter or filled up, and sends no request.
C32_ChallengeOfSixteenBytes ==
    dialPc \notin {"idle", "defaults", "challenge"} =>
        IF Len(rand) < ChallengeLen
        THEN /\ dialRet.err = "rand"
             /\ dialPc = "done"
             /\ dialChallenge = <<>>
             /\ dialReq = NoRequest
             /\ ~resp.received
             /\ ~dialRet.conn
        ELSE /\ dialRet.err # "rand"
             /\ Len(dialChallenge) = ChallengeLen
             /\ dialChallenge = SubSeq(rand, 1, ChallengeLen)

\* a source of fifteen bytes has ended the dial
C32_Witness ==
    /\ Len(rand) = ChallengeLen - 1
    /\ dialPc = "done"
    /\ dialRet.err = "rand"
    /\ dialReq = NoRequest

(***************************************************************************)
(* The two ends of a handshake                                             *)
(***************************************************************************)
\* C33: when dial and the accept that got its request both succeed, the two
\* ends have the same compression options, none or the same two flags, and
\* the same subprotocol up to letter case.
C33_EndsAgree ==
    dialPc = "done" /\ dialRet.conn /\ pc = "done" /\ ret.conn =>
        /\ dialRet.copts = ret.copts
        /\ EqualFold(dialRet.subprotocol, ret.subprotocol)

\* a client in context-takeover mode and a server in no-context-takeover
\* mode have both set the two flags, and agreed on a subprotocol of which
\* they prefer another spelling
C33_Witness ==
    /\ dialPc = "done" /\ dialRet.conn
    /\ pc = "done" /\ ret.conn
    /\ dialOpts.CompressionMode = "CompressionContextTakeover"
    /\ opts.CompressionMode = "CompressionNoContextTakeover"
    /\ dialRet.copts = Copts(TRUE, TRUE)
    /\ dialOpts.Subprotocols = <<sBar, sFoo>>
    /\ ret.subprotocol = sFOO
    /\ dialRet.subprotocol # <<>>

(***************************************************************************)
(* Properties of the header packages                                       *)
(***************************************************************************)
RECURSIVE Flatten(_)
\* the sequences of a sequence one after the other
Flatten(ss) == IF ss = <<>> THEN <<>> ELSE Head(ss) \o Flatten(Tail(ss))

\* the elements of a comma-separated value: what stands between the commas
\* without the white space around it, the empty ones left out
Elements(value) ==
    LET parts == Split(value, ",") IN
    SelectSeq([i \in 1..Len(parts) |-> TrimSpace(parts[i])], LAMBDA e : e # <<>>)

\* an element that is one extension and nothing more
IsExtension(e) == ~parseExtension(e).err /\ parseExtension(e).rest = <<>>

\* a header value that is a list of at least one extension
IsExtensionList(value) ==
    LET es == Elements(value) IN
    es # <<>> /\ \A i \in 1..Len(es) : IsExtension(es[i])

\* the extensions of the elements of a value
ElementExtensions(value) ==
    LET es == Elements(value) IN [i \in 1..Len(es) |-> parseExtension(es[i]).ext]

\* C34: ParseExtensions returns the extensions of all the values of the
\* header one after the other in the order of the header, each value a
\* comma-separated list whose empty elements are skipped; it returns no
\* extensions and no error when the header is missing, and an error and no
\* extensions when some value is empty, has only commas and white space, or
\* has an element that is not an extension.
C34_ParseExtensions ==
    fn = "ParseExtensions" =>
        LET vs == arg.val.vals IN
        IF \A i \in 1..Len(vs) : IsExtensionList(vs[i])
        THEN out = [err |-> FALSE,
                    exts |-> Flatten([i \in 1..Len(vs) |-> ElementExtensions(vs[i])])]
        ELSE out = [err |-> TRUE, exts |-> <<>>]

\* a header of two values, one with an empty element, gave the extensions
\* of both
C34_Witness ==
    /\ fn = "ParseExtensions"
    /\ arg.val = Values(<<<<" ", ",", " ", "B">>, <<"a">>>>)
    /\ out = [err |-> FALSE,
              exts |-> <<[Name |-> <<"B">>, Params |-> <<>>],
                         [Name |-> <<"a">>, Params |-> <<>>]>>]

\* a header whose second value is a comma alone gave an error and nothing
\* of its first value
C34_WitnessRejected ==
    /\ fn = "ParseExtensions"
    /\ arg.val = Values(<<<<"a">>, <<",">>>>)
    /\ out = [err |-> TRUE, exts |-> <<>>]

\* what a parameter is written as: the pieces of an element between the ";"
\* after the name, without the white space around them
RawParams(e) ==
    LET parts == Split(e, ";") IN
    [k \in 1..Len(parts) - 1 |-> TrimSpace(parts[k + 1])]

\* whether a parameter is written with a "="
HasValue(p) == \E i \in 1..Len(p) : p[i] = "="

\* what follows the "=" of a parameter, without leading white space
RawValue(p) ==
    LET i == CHOOSE k \in 1..Len(p) : p[k] = "=" /\ \A j \in 1..k - 1 : p[j] # "=" IN
    trimLeftSpace(SubSeq(p, i + 1, Len(p)))

\* a written value that is nothing, a quoted string without its end, or a
\* quoted string of something that is no token
BadRawValue(v) ==
    \/ v = <<>>
    \/ /\ Head(v) = "\""
       /\ \/ ReadQuotedString(v).err
          \/ ~IsToken(ReadQuotedString(v).value)

\* the elements of all the values of a header in order
HeaderElements(vs) == Flatten([i \in 1..Len(vs) |-> Elements(vs[i])])

\* C35: every parameter value of a parsed extension list is a token or is
\* missing, and one written as a quoted string is what the string holds
\* unescaped; the header is rejected when a parameter's unescaped value is
\* empty or has a byte that is no token character, when its quoted string
\* does not end, or when nothing follows its "=".
C35_ParamValues ==
    fn = "ParseExtensions" =>
        LET es == HeaderElements(arg.val.vals) IN
        /\ ~out.err =>
              /\ Len(out.exts) = Len(es)
              /\ \A i \in 1..Len(out.exts) :
                    LET ps == out.exts[i].Params
                        raw == RawParams(es[i]) IN
                    /\ Len(ps) = Len(raw)
                    /\ \A k \in 1..Len(ps) :
                          /\ ps[k].Value = <<>> \/ IsToken(ps[k].Value)
                          /\ ps[k].Value = <<>> <=> ~HasValue(raw[k])
                          /\ HasValue(raw[k]) /\ Head(RawValue(raw[k])) = "\"" =>
                                ps[k].Value = ReadQuotedString(RawValue(raw[k])).value
        /\ (\E i \in 1..Len(es) :
               \E k \in 1..Len(RawParams(es[i])) :
                  /\ HasValue(RawParams(es[i])[k])
                  /\ BadRawValue(RawValue(RawParams(es[i])[k])))
              => out = [err |-> TRUE, exts |-> <<>>]

\* a value written as a quoted string with an escaped byte came out as the
\* token it holds
C35_Witness ==
    /\ fn = "ParseExtensions"
    /\ arg.val = One(<<"a">> \o <<";", " ", "b", "=", "\"", "\\", "c", "\"", " ">>
                        \o <<";", "b", "=", "c">>)
    /\ ~out.err
    /\ out.exts[1].Params = <<[Name |-> <<"b">>, Value |-> <<"c">>],
                              [Name |-> <<"b">>, Value |-> <<"c">>]>>

\* a header with an empty quoted string as a value was rejected
C35_WitnessRejected ==
    /\ fn = "ParseExtensions"
    /\ arg.val = One(<<"a">> \o <<";", "b", "=", "\"", "\"">>)
    /\ out.err

\* C36: for every header whose values parse as extension lists, String() on
\* the parsed list (extensions joined by ", ", name and parameters by "; ",
\* a parameter with a value as name=value) parsed again gives the list of
\* the first parse, extensions and parameters in the same order, whatever
\* the spacing, the empty elements and the quoting of the header were.
C36_RoundTrip ==
    fn = "ParseAgain" /\ arg.val.vals # <<>> =>
        out.again = [err |-> FALSE, exts |-> out.exts]

\* a value with odd spacing, an empty element and a quoted value was parsed,
\* written in the canonical form and parsed again
C36_Witness ==
    /\ fn = "ParseAgain"
    /\ arg.val = One(<<"a">> \o <<";", " ", "b", "=", "\"", "\\", "c", "\"", " ">>
                        \o <<" ", ",", " ", "B">>)
    /\ out.str = <<"a", ";", " ", "b", "=", "c", ",", " ", "B">>
    /\ out.again.exts = out.exts
    /\ Len(out.exts) = 2

\* C37: for every string s, with double quotes, backslashes, control
\* characters and bytes above 127 in it or not, ReadQuotedString on what
\* QuoteString made of s returns s, an empty rest and no error.
C37_QuoteRoundTrip ==
    fn = "ReadQuotedString" => out = [err |-> FALSE, value |-> arg.val, rest |-> <<>>]

\* a string of a quote, a control character and a byte above 127 came back
C37_Witness ==
    /\ fn = "ReadQuotedString"
    /\ arg.val = <<"\"", "0x00", "0xe9">>
    /\ out.value = arg.val

\* a string ending in a backslash came back
C37_WitnessBackslash ==
    /\ fn = "ReadQuotedString"
    /\ arg.val = <<"a", " ", "\\">>
    /\ out.value = arg.val

\* a value that is a list of at least one token
IsTokenList(value) ==
    LET es == Elements(value) IN
    es # <<>> /\ \A i \in 1..Len(es) : IsToken(es[i])

\* C38: ParseTokenList returns in order the non-empty elements of the
\* comma-separated value, skipping the empty ones that leading, trailing
\* and consecutive commas and white space make; it fails and returns no
\* tokens when a non-empty element is no token or when the value has no
\* token at all.  ParseTokenLists returns the tokens of its values one after
\* the other, fails as a whole when one value fails, and returns an empty
\* list and no error for no values.
C38_ParseTokenList ==
    /\ fn = "ParseTokenList" =>
          IF IsTokenList(arg.val)
          THEN out = [err |-> FALSE, tokens |-> Elements(arg.val)]
          ELSE out = [err |-> TRUE, tokens |-> <<>>]
    /\ fn = "ParseTokenLists" =>
          LET vs == arg.val.vals IN
          IF \A i \in 1..Len(vs) : IsTokenList(vs[i])
          THEN out = [err |-> FALSE, tokens |-> HeaderElements(vs)]
          ELSE out = [err |-> TRUE, tokens |-> <<>>]

\* two values with empty elements gave their four tokens in order
C38_Witness ==
    /\ fn = "ParseTokenLists"
    /\ arg.val = Values(<<<<",", " ", "a", ",", ",", "B", " ">>, sKeepAliveUpgrade>>)
    /\ out.tokens = <<<<"a">>, <<"B">>, <<"k","e","e","p","-","a","l","i","v","e">>, sUpgrade>>

\* a value of commas and white space alone failed
C38_WitnessNoToken ==
    /\ fn = "ParseTokenList"
    /\ arg.val = <<",", " ", ",">>
    /\ out = [err |-> TRUE, tokens |-> <<>>]

\* C39: ReadToken on a string that starts with a token character returns
\* the longest leading run of token characters and what follows it without
\* its leading white space (so ReadToken(s + " rest") is (s, "rest") for a
\* token s); on an empty string or one that starts with another byte, a
\* space included, it returns an error, an empty token and an empty rest.
C39_ReadToken ==
    fn = "ReadToken" =>
        LET s == arg.val IN
        IF s # <<>> /\ isToken(s[1])
        THEN /\ ~out.err
             /\ \E n \in 1..Len(s), k \in 1..Len(s) :
                   /\ n <= k
                   /\ \A i \in 1..n : isToken(s[i])
                   /\ n < Len(s) => ~isToken(s[n + 1])
                   /\ \A i \in n + 1..k : isSpace(s[i])
                   /\ k < Len(s) => ~isSpace(s[k + 1])
                   /\ out.token = SubSeq(s, 1, n)
                   /\ out.rest = SubSeq(s, k + 1, Len(s))
        ELSE out = [err |-> TRUE, token |-> <<>>, rest |-> <<>>]

\* a token, a space and a rest came apart
C39_Witness ==
    /\ fn = "ReadToken"
    /\ arg.val = <<"a", " ", "B">>
    /\ out = [err |-> FALSE, token |-> <<"a">>, rest |-> <<"B">>]

\* a string with a leading space was refused
C39_WitnessError ==
    /\ fn = "ReadToken"
    /\ arg.val = <<" ", "a">>
    /\ out.err

\* C40: VerifyConnection and VerifyClientUpgrade return, with an error or
\* without, for every header map, one that holds the key with an empty list
\* of values included.
C40_NeverCrashes ==
    fn \in {"VerifyConnection", "VerifyClientUpgrade"} => out.err \in {"ok", "err"}

\* for a map that misses the key or holds at least one value under it the
\* two checks return
C40_ReturnsWithValues ==
    fn \in {"VerifyConnection", "VerifyClientUpgrade"}
        /\ (~arg.val.present \/ arg.val.vals # <<>>) => out.err \in {"ok", "err"}

====
